---- MODULE Spec2Model ----
(***************************************************************************)
(* Invoice ingestion pipeline of traitementFinal.py:                       *)
(* EnhancedInvoiceProcessor.process_files drives, per uploaded file,       *)
(* extension validation, the temporary file, OCR text extraction, field    *)
(* extraction, client resolution and the routing of the document to the    *)
(* invoices or the invalid_invoices table of the sqlite database.          *)
(*                                                                         *)
(* Python values: None is <<>>, any other value v of a nullable field is   *)
(* the one-element tuple <<v>>.  Amounts are kept in hundredths.  A dict   *)
(* is a function from its keys.                                            *)
(***************************************************************************)
EXTENDS Integers, Sequences, FiniteSets, TLC

VARIABLES
    clients,           \* table clients, rows in rowid order
    invoices,          \* table invoices, rows in rowid order
    invalid_invoices,  \* table invalid_invoices, rows in rowid order
    tempfiles,         \* names of the temporary files present on disk
    clock,             \* number of datetime.now() readings made so far
    uuids,             \* number of uuid4 values drawn so far
    faults,            \* failures of the environment so far (disk, OCR, database)
    active,            \* the batch invocations (process_files calls) running
    pc,                \* position of each invocation inside process_files
    input,             \* the files of the argument `files` not yet iterated over
    files,             \* filenames the loop has taken so far, in order
    results,           \* local list `results` of process_files
    temp_file,         \* local `temp_file` of process_files
    text,              \* local `text`: what _extract_text returned
    invoice_data,      \* local `invoice_data` of process_invoice
    client_id,         \* local `client_id` of process_invoice
    pending,           \* arguments of the save_invalid_invoice call to make
    hist,              \* per file: what the invocation did for it (history)
    idlog              \* every invoice_id computed so far (history)

vars == <<clients, invoices, invalid_invoices, tempfiles, clock, uuids, faults, active,
          pc, input, files, results, temp_file, text, invoice_data, client_id,
          pending, hist, idlog>>

dbvars == <<clients, invoices, invalid_invoices>>

-----------------------------------------------------------------------------
(* Bounds *)

MaxFiles == 2      \* files per batch invocation
MaxPages == 2      \* pages the rasterizer returns for one PDF
MaxFaults == 1     \* failures of the environment in one run

Procs == {1, 2}

None == <<>>
Some(v) == <<v>>

\* Python truthiness of a nullable string: None and '' are falsy.
Truthy(x) == x # None /\ x # Some("")

-----------------------------------------------------------------------------
(* Filenames are sequences of characters, so that os.path.splitext and     *)
(* str.lower are computed and not looked up.                               *)

Filenames ==
    { <<"a", ".", "p", "d", "f">>,
      <<"b", ".", "P", "N", "G">>,
      <<"c", ".", "t", "x", "t">>,
      <<"d", ".", "P", "d", "F", ".", "E", "X", "E">>,
      <<".", "p", "d", "f">>,
      <<"e">> }

LowerChar(c) ==
    CASE c = "A" -> "a" [] c = "B" -> "b" [] c = "C" -> "c" [] c = "D" -> "d"
      [] c = "E" -> "e" [] c = "F" -> "f" [] c = "G" -> "g" [] c = "J" -> "j"
      [] c = "N" -> "n" [] c = "P" -> "p" [] c = "T" -> "t" [] c = "X" -> "x"
      [] OTHER -> c

lower(s) == [i \in 1..Len(s) |-> LowerChar(s[i])]

\* os.path.splitext(name)[1]: from the last dot on, unless that dot is
\* preceded by dots only (a leading-dot name has no extension).
splitext(name) ==
    LET dots == {i \in 1..Len(name) : name[i] = "."}
    IN  IF dots = {} THEN <<>>
        ELSE LET last == CHOOSE i \in dots : \A j \in dots : j <= i
             IN  IF \E j \in 1..(last - 1) : name[j] # "."
                 THEN SubSeq(name, last, Len(name))
                 ELSE <<>>

\* An allow-list that also lets executables through.
AllowedExtensionsLoose ==
    { <<".", "p", "d", "f">>, <<".", "j", "p", "g">>,
      <<".", "j", "p", "e", "g">>, <<".", "p", "n", "g">>,
      <<".", "e", "x", "e">> }

AllowedExtensions ==
    { <<".", "p", "d", "f">>, <<".", "j", "p", "g">>,
      <<".", "j", "p", "e", "g">>, <<".", "p", "n", "g">> }

file_ext(filename) == lower(splitext(filename))


\* str() of a character sequence.
RECURSIVE str(_)
str(s) == IF s = <<>> THEN "" ELSE s[1] \o str(Tail(s))

-----------------------------------------------------------------------------
(* Recognized texts and what _extract_invoice_details returns on each of   *)
(* them (obtained by running the function on the text).                    *)

T_ACME   == "PO Number:12345 TOTAL: 1234.56 EUR Bill to: Acme Corp 12345 Email: a@a.com"
T_NONAME == "PO Number:12345 Email: a@a.com"
T_BOTH   == "Date: 19/02/1993 Bill to: Acme Corp Email: a@a.com Tel: 0611223344 Bank Account Number 1234567 USD"
T_DISC   == "TOTAL: 10 DISCOUNT: 5.00"

Texts == {T_ACME, T_NONAME, T_BOTH, T_DISC}

NoFields ==
    [invoice_number |-> None, date |-> None, due_date |-> None,
     bill_to |-> None, total |-> None, subtotal |-> None,
     tax_percentage |-> None, tax |-> None, discount_percentage |-> None,
     discount |-> None, currency |-> Some("EUR"), gstin |-> None,
     bank_name |-> None, branch_name |-> None, account_number |-> None,
     bank_swift_code |-> None,
     client |-> [name |-> None, email |-> None, phone |-> None, address |-> None],
     items |-> Some("[]")]

\* re.search(r'\$|USD', text)
search_dollar_or_USD(t) == t = T_BOTH

\* A currency detection without default.
currency_no_default(t) ==
    IF search_dollar_or_USD(t) THEN Some("USD") ELSE None

\* currency = 'EUR', replaced by 'USD' if the text has a "$" or "USD"
currency(t) ==
    IF search_dollar_or_USD(t) THEN Some("USD") ELSE Some("EUR")

\* Either [raises |-> TRUE, error] or [raises |-> FALSE, data].
extract_invoice_details(t) ==
    CASE t = T_ACME ->
           [raises |-> FALSE,
            data |-> [NoFields EXCEPT !.invoice_number = Some("12345"),
                                      !.bill_to = Some("Acme Corp"),
                                      !.total = Some(123456),
                                      !.currency = currency(t),
                                      !.client.name = Some("Acme Corp"),
                                      !.client.email = Some("a@a.com")]]
      [] t = T_NONAME ->
           [raises |-> FALSE,
            data |-> [NoFields EXCEPT !.invoice_number = Some("12345"),
                                      !.currency = currency(t),
                                      !.client.email = Some("a@a.com")]]
      [] t = T_BOTH ->
           [raises |-> FALSE,
            data |-> [NoFields EXCEPT !.date = Some("19/02/1993"),
                                      !.bill_to = Some("Acme Corp"),
                                      !.currency = currency(t),
                                      !.account_number = Some("1234567"),
                                      !.client.name = Some("Acme Corp"),
                                      !.client.email = Some("a@a.com"),
                                      !.client.phone = Some("0611223344")]]
      [] t = T_DISC ->
           [raises |-> TRUE, error |-> "no such group"]

-----------------------------------------------------------------------------
(* datetime.now() and hashlib.md5 *)

\* str(datetime.now()) at the k-th reading of the clock.
NowStr(k) ==
    CASE k = 1 -> "2026-11-01 09:00:00.000001"
      [] k = 2 -> "2026-11-01 09:00:00.000002"
      [] k = 3 -> "2026-11-02 09:00:00.000003"
      [] k = 4 -> "2026-11-02 09:00:00.000004"
      [] k = 5 -> "2026-11-03 09:00:00.000005"
      [] k = 6 -> "2026-11-03 09:00:00.000006"
      [] k = 7 -> "2026-11-04 09:00:00.000007"
      [] OTHER -> "2026-11-04 09:00:00.000008"

\* datetime.now().strftime('%Y-%m-%d') at the k-th reading of the clock.
Today(k) ==
    CASE k \in {1, 2} -> "2026-11-01"
      [] k \in {3, 4} -> "2026-11-02"
      [] k \in {5, 6} -> "2026-11-03"
      [] OTHER -> "2026-11-04"

\* hashlib.md5(s.encode()).hexdigest(), as [head: first 8 digits, tail: rest].
md5(s) ==
    CASE s = "12345" -> [head |-> "827ccb0e", tail |-> "ea8a706c4c34a16891f84e7b"]
      [] s = "2026-11-01 09:00:00.000001" -> [head |-> "cccdbd43", tail |-> "8e1b3189e138c9d857cb4841"]
      [] s = "2026-11-01 09:00:00.000002" -> [head |-> "ce019af0", tail |-> "fc7a33b9fe9cf2ed138222a2"]
      [] s = "2026-11-02 09:00:00.000003" -> [head |-> "ce34b1a7", tail |-> "ba6a6a6561198b877c0885b0"]
      [] s = "2026-11-02 09:00:00.000004" -> [head |-> "7700b978", tail |-> "5efb0f97b50233004e51f227"]
      [] s = "2026-11-03 09:00:00.000005" -> [head |-> "4036819a", tail |-> "7c6a8c330b5a76176b13c0b4"]
      [] s = "2026-11-03 09:00:00.000006" -> [head |-> "b4f5c0f8", tail |-> "6f5e535a3df7a051d705a985"]
      [] s = "2026-11-04 09:00:00.000007" -> [head |-> "80d2f388", tail |-> "560d7aec567b0dca7ff8c60e"]
      [] OTHER -> [head |-> "533113bc", tail |-> "9ba9f61c2dc3dc2ec7dd629a"]

-----------------------------------------------------------------------------
(* dict access *)

\* d.get(k)
Get(d, k) == IF k \in DOMAIN d THEN d[k] ELSE None

\* d.get(k, default): the default applies only when the key is absent.
GetDefault(d, k, default) == IF k \in DOMAIN d THEN d[k] ELSE default

\* x or y
Or(x, y) == IF Truthy(x) THEN x ELSE y

EmptyDict == [k \in {} |-> None]

\* json.dumps of data.get('items', []): a missing key dumps the empty list,
\* a str value is dumped as a JSON string.
JsonItems(d) ==
    IF "items" \in DOMAIN d /\ d["items"] # None
    THEN Some("\"" \o d["items"][1] \o "\"")
    ELSE IF "items" \in DOMAIN d THEN Some("null") ELSE Some("[]")

-----------------------------------------------------------------------------
(* DatabaseManager *)

\* SELECT ... FROM clients WHERE email = ? ; fetchone(): the first matching
\* row, or None.
get_client_by_email(tbl, email) ==
    LET hits == {i \in 1..Len(tbl) : tbl[i].email = email}
    IN  IF hits = {} THEN None
        ELSE Some(tbl[CHOOSE i \in hits : \A j \in hits : i <= j])

\* SELECT ... FROM clients WHERE phone = ? ; fetchone()
get_client_by_phone(tbl, phone) ==
    LET hits == {i \in 1..Len(tbl) : tbl[i].phone = phone}
    IN  IF hits = {} THEN None
        ELSE Some(tbl[CHOOSE i \in hits : \A j \in hits : i <= j])

\* A create_client that does not store the email.
ClientRowWithoutEmail(id, client_data, doc) ==
    [id |-> id,
     name |-> Get(client_data, "name"),
     email |-> None,
     phone |-> Get(client_data, "phone"),
     address |-> Get(client_data, "address"),
     doc |-> doc]

\* The row create_client inserts for client_data, under the fresh uuid id.
ClientRow(id, client_data, doc) ==
    [id |-> id,
     name |-> Get(client_data, "name"),
     email |-> Get(client_data, "email"),
     phone |-> Get(client_data, "phone"),
     address |-> Get(client_data, "address"),
     doc |-> doc]

\* A clients schema with email TEXT UNIQUE.
ClientsConstraintUniqueEmail(tbl, row) ==
    IF row.name = None
    THEN Some("NOT NULL constraint failed: clients.name")
    ELSE IF \E i \in 1..Len(tbl) : tbl[i].id = row.id
    THEN Some("UNIQUE constraint failed: clients.id")
    ELSE IF \E i \in 1..Len(tbl) : row.email # None /\ tbl[i].email = row.email
    THEN Some("UNIQUE constraint failed: clients.email")
    ELSE None

\* Constraint the clients schema puts on an inserted row: the error the
\* INSERT raises, or None.  (name TEXT NOT NULL, id PRIMARY KEY)
ClientsConstraint(tbl, row) ==
    IF row.name = None THEN Some("NOT NULL constraint failed: clients.name")
    ELSE IF \E i \in 1..Len(tbl) : tbl[i].id = row.id
         THEN Some("UNIQUE constraint failed: clients.id")
         ELSE None

\* Constraint the invoices schema puts on an inserted row.
\* (id PRIMARY KEY, client_id NOT NULL, invoice_number NOT NULL; foreign
\* keys are not enforced by a default sqlite connection)
InvoicesConstraint(tbl, row) ==
    IF \E i \in 1..Len(tbl) : tbl[i].id = row.id
    THEN Some("UNIQUE constraint failed: invoices.id")
    ELSE IF row.client_id = None
         THEN Some("NOT NULL constraint failed: invoices.client_id")
         ELSE IF row.invoice_number = None
              THEN Some("NOT NULL constraint failed: invoices.invoice_number")
              ELSE None

\* A failure of the database itself (locked file, I/O error).
DbError == "database is locked"

\* An INSERT OR REPLACE keyed on the email: the row that has the email is
\* overwritten.
create_client_upsert(tbl, row) ==
    IF \E i \in 1..Len(tbl) : tbl[i].email = row.email
    THEN [i \in 1..Len(tbl) |-> IF tbl[i].email = row.email THEN row ELSE tbl[i]]
    ELSE Append(tbl, row)

\* create_client, once the constraints of the table are met: the INSERT INTO
\* clients and its commit.
create_client(tbl, row) == Append(tbl, row)

-----------------------------------------------------------------------------
(* process_invoice helpers *)

\* An id always taken from the processing time.
InvoiceIdTimestamp(invoice_number, now) == md5(NowStr(now))

\* invoice_id: md5 of the processing time, replaced by the md5 of the
\* invoice number when there is one.
InvoiceId(invoice_number, now) ==
    IF Truthy(invoice_number) THEN md5(invoice_number[1]) ELSE md5(NowStr(now))

\* A process_invoice that sets no default value.
WithoutDefaults(d, invoice_id, now) == d

\* invoice_data after the four assignments of default values.
WithDefaults(d, invoice_id, now) ==
    LET date == Or(Get(d, "date"), Some(Today(now)))
    IN  [d EXCEPT !.date = date,
                  !.due_date = Or(Get(d, "due_date"), date),
                  !.bill_to = Or(Get(d, "bill_to"), Some("Not found")),
                  !.invoice_number =
                      Or(Get(d, "invoice_number"), Some("INV-" \o invoice_id.head))]

\* The row of the INSERT INTO invoices.
InvoiceRow(d, invoice_id, cid, doc) ==
    [id |-> invoice_id,
     invoice_number |-> d["invoice_number"],
     date |-> d["date"],
     due_date |-> d["due_date"],
     bill_to |-> d["bill_to"],
     total |-> d["total"],
     subtotal |-> GetDefault(d, "subtotal", d["total"]),
     tax |-> GetDefault(d, "tax", Some(0)),
     gstin |-> Get(d, "gstin"),
     discount |-> GetDefault(d, "discount", Some(0)),
     bank_name |-> Get(d, "bank_name"),
     branch_name |-> Get(d, "branch_name"),
     bank_account_number |-> Get(d, "account_number"),
     bank_swift_code |-> Get(d, "bank_swift_code"),
     status |-> "pending",
     items |-> JsonItems(d),
     client_id |-> cid,
     doc |-> doc]

\* The row of the INSERT INTO invalid_invoices made by save_invalid_invoice.
InvalidRow(data, error_message, doc) ==
    [invoice_number |-> Get(data, "invoice_number"),
     date |-> Get(data, "date"),
     due_date |-> Get(data, "due_date"),
     bill_to |-> Get(data, "bill_to"),
     total |-> Get(data, "total"),
     subtotal |-> Get(data, "subtotal"),
     tax |-> Get(data, "tax"),
     gstin |-> Get(data, "gstin"),
     discount |-> Get(data, "discount"),
     bank_name |-> Get(data, "bank_name"),
     branch_name |-> Get(data, "branch_name"),
     bank_account_number |-> Get(data, "bank_account_number"),
     bank_swift_code |-> Get(data, "bank_swift_code"),
     status |-> "invalid",
     items |-> JsonItems(data),
     error_message |-> error_message,
     doc |-> doc]

\* A validation that requires a total as well.
missing_required_field_total(d) ==
    IF Get(d, "total") = None THEN Some("total")
    ELSE IF Get(d, "currency") = None THEN Some("currency")
    ELSE None

\* The field whose absence sends a document to invalid_invoices before any
\* INSERT INTO invoices is tried: the check reads currency, nothing else.
missing_required_field(d) ==
    IF Get(d, "currency") = None THEN Some("currency") ELSE None

\* A result that says "success" whatever happened.
ResultAlwaysSuccess(status, filename, error, data) ==
    [status |-> "success", filename |-> filename, error |-> error, data |-> data]

\* One entry of the list process_files returns.
Result(status, filename, error, data) ==
    [status |-> status, filename |-> filename, error |-> error, data |-> data]

\* An except branch that logs the error and reports nothing.
AppendErrorDropped(res, filename, e) == res

\* results.append of the except branch of process_files.
AppendError(res, filename, e) ==
    Append(res, Result("error", filename, Some(e), None))

-----------------------------------------------------------------------------
(* State *)

\* The document (file) an invocation is working on, or has just finished.
Doc(p) == <<p, Len(files[p])>>

Filename(p) == files[p][Len(files[p])]

\* What has been done for one file (history).
HistEntry ==
    [temp   |-> FALSE,     \* a temporary file was created
     ocr    |-> FALSE,     \* the rasterizer / image loader / OCR was called
     pages  |-> 0,         \* pages recognized before a page failed
     fail   |-> "none",    \* what raised, seen from process_files
     text   |-> None,      \* the text handed to process_invoice
     insert |-> "none",    \* INSERT INTO invoices: none / ok / raised
     now    |-> 0,         \* the reading of the clock by process_invoice
     cid    |-> None,      \* what _handle_client_processing returned
     calls  |-> 0,         \* calls of _handle_client_processing
     raised |-> "none",    \* the step of its try block that raised
     via    |-> "none",    \* the step that produced the id it returned
     status |-> None]      \* status of the entry appended to results

SetHist(p, e) == [hist EXCEPT ![p][Len(files[p])] = e]

CurHist(p) == hist[p][Len(files[p])]

\* A clients table left by earlier runs.
BOB == [id |-> 0, name |-> Some("Bob"), email |-> None,
        phone |-> Some("0611223344"), address |-> None, doc |-> <<0, 0>>]

InitialClients == { <<>>, <<BOB>> }

\* The lists of at most n filenames.
RECURSIVE FileLists(_)
FileLists(n) ==
    IF n = 0 THEN { <<>> }
    ELSE LET shorter == FileLists(n - 1)
         IN  shorter \cup {Append(l, f) : l \in shorter, f \in Filenames}

InitWith(A) ==
    /\ clients \in InitialClients
    /\ invoices = <<>>
    /\ invalid_invoices = <<>>
    /\ tempfiles = {}
    /\ clock = 0
    /\ uuids = 0
    /\ faults = 0
    /\ active = A
    /\ pc = [p \in Procs |-> IF p \in A THEN "loop" ELSE "off"]
    /\ input \in [Procs -> FileLists(MaxFiles)]
    /\ \A p \in Procs \ A : input[p] = <<>>
    /\ files = [p \in Procs |-> <<>>]
    /\ results = [p \in Procs |-> <<>>]
    /\ temp_file = [p \in Procs |-> None]
    /\ text = [p \in Procs |-> None]
    /\ invoice_data = [p \in Procs |-> EmptyDict]
    /\ client_id = [p \in Procs |-> None]
    /\ pending = [p \in Procs |-> None]
    /\ hist = [p \in Procs |-> <<>>]
    /\ idlog = {}

\* The environment may fail a call only while its failures are not used up.
Fault(fault) ==
    /\ fault => faults < MaxFaults
    /\ faults' = IF fault THEN faults + 1 ELSE faults

\* One batch invocation: files are processed one after another.
Init == InitWith({1})

-----------------------------------------------------------------------------
(* process_files *)

\* Top of the loop body up to temp_file.close(): extension check, temporary
\* file, copy of the upload.  outcome: what the environment does.
StartFile(p) ==
    /\ pc[p] = "loop"
    /\ input[p] # <<>>
    /\ \E outcome \in {"ok", "tempfile", "read"} :
         LET filename == Head(input[p])
             ext == file_ext(filename)
             doc == <<p, Len(files[p]) + 1>>
             unsupported == ext \notin AllowedExtensions
             raised == unsupported \/ outcome # "ok"
             e == IF unsupported THEN "Unsupported file format: " \o str(ext)
                  ELSE IF outcome = "tempfile" THEN "No space left on device"
                  ELSE "read failed"
             created == ~unsupported /\ outcome # "tempfile"
         IN  /\ unsupported => outcome = "ok"
             /\ Fault(outcome # "ok")
             /\ input' = [input EXCEPT ![p] = Tail(@)]
             /\ files' = [files EXCEPT ![p] = Append(@, filename)]
             /\ temp_file' = [temp_file EXCEPT ![p] =
                                 IF created THEN Some(doc) ELSE None]
             /\ tempfiles' = IF created THEN tempfiles \cup {doc} ELSE tempfiles
             /\ results' = IF raised
                           THEN [results EXCEPT ![p] = AppendError(@, filename, e)]
                           ELSE results
             /\ hist' = [hist EXCEPT ![p] = Append(@,
                            [HistEntry EXCEPT
                               !.temp = created,
                               !.fail = IF unsupported THEN "extension"
                                        ELSE IF outcome = "ok" THEN "none"
                                        ELSE outcome,
                               !.status = IF raised THEN Some("error") ELSE None])]
             /\ pc' = [pc EXCEPT ![p] = IF raised THEN "finally" ELSE "extract_text"]
    /\ UNCHANGED <<dbvars, clock, uuids, active, text, invoice_data,
                   client_id, pending, idlog>>

\* An _extract_text that swallows the failure of a page and returns the
\* text of the other pages.
extract_text_partial(n, bad, t) ==
    IF bad = 0
    THEN [raises |-> TRUE, error |-> "Unable to read document"]
    ELSE [raises |-> FALSE, text |-> t]

\* _extract_text: the pages of a PDF are rasterized and recognized in order,
\* an image is opened and recognized; any failure is re-raised.
\* n: pages of the document; bad: the first page that fails, 0: the
\* rasterizer or Image.open fails, n + 1: none fails; t: the joined text.
extract_text(n, bad, t) ==
    IF bad = 0
    THEN [raises |-> TRUE, error |-> "Unable to read document"]
    ELSE IF bad <= n
         THEN [raises |-> TRUE, error |-> "tesseract failed"]
         ELSE [raises |-> FALSE, text |-> t]

\* text = self._extract_text(temp_file.name, file_ext), and the except
\* branch of process_files when it raises.
ExtractText(p) ==
    /\ pc[p] = "extract_text"
    /\ \E n \in 1..MaxPages, bad \in 0..(MaxPages + 1), t \in Texts :
         LET pdf == file_ext(Filename(p)) = <<".", "p", "d", "f">>
             r == extract_text(n, bad, t)
             ok == ~r.raises
             e == IF ok THEN "" ELSE r.error
         IN  /\ pdf \/ n = 1
             /\ bad <= n + 1
             /\ Fault(bad <= n)
             /\ text' = [text EXCEPT ![p] = IF ok THEN Some(r.text) ELSE @]
             /\ results' = IF ok THEN results
                           ELSE [results EXCEPT ![p] = AppendError(@, Filename(p), e)]
             /\ hist' = SetHist(p, [CurHist(p) EXCEPT
                            !.ocr = TRUE,
                            !.pages = IF bad = 0 \/ bad = n + 1 THEN 0 ELSE bad - 1,
                            !.fail = IF bad = n + 1 THEN "none"
                                     ELSE IF bad = 0 THEN "rasterize" ELSE "ocr",
                            !.status = IF ok THEN None ELSE Some("error")])
             /\ pc' = [pc EXCEPT ![p] = IF ok THEN "process_invoice" ELSE "finally"]
    /\ UNCHANGED <<dbvars, tempfiles, clock, uuids, active, input, files, temp_file,
                   invoice_data, client_id, pending, idlog>>

\* finally: the temporary file is unlinked if it exists; an unlink that
\* raises is logged and the file stays.
Finally(p) ==
    /\ pc[p] = "finally"
    /\ \E unlinked \in BOOLEAN :
         /\ (temp_file[p] = None \/ temp_file[p][1] \notin tempfiles) => unlinked
         /\ Fault(~unlinked)
         /\ tempfiles' = IF temp_file[p] # None /\ unlinked
                         THEN tempfiles \ {temp_file[p][1]}
                         ELSE tempfiles
    /\ pc' = [pc EXCEPT ![p] = "loop"]
    /\ UNCHANGED <<dbvars, clock, uuids, active, input, files, results, temp_file, text,
                   invoice_data, client_id, pending, hist, idlog>>

\* return results, once the loop has gone through the list
Return(p) ==
    /\ pc[p] = "loop"
    /\ input[p] = <<>>
    /\ pc' = [pc EXCEPT ![p] = "done"]
    /\ UNCHANGED <<dbvars, tempfiles, clock, uuids, faults, active, input, files, results,
                   temp_file, text, invoice_data, client_id, pending, hist, idlog>>

-----------------------------------------------------------------------------
(* process_invoice and _handle_client_processing; every database call is a *)
(* step of its own, and each may raise (fault).                            *)

\* The outer except of process_invoice: save_invalid_invoice({}, str(e)).
OuterExcept(p, e) ==
    [pending EXCEPT ![p] =
        Some([data |-> EmptyDict, error_message |-> e,
              result |-> Result("error", Filename(p), Some(e), None)])]

\* invoice_data = self._extract_invoice_details(text)
ExtractDetails(p) ==
    /\ pc[p] = "process_invoice"
    /\ LET r == extract_invoice_details(text[p][1])
       IN  IF r.raises
           THEN /\ pending' = OuterExcept(p, r.error)
                /\ pc' = [pc EXCEPT ![p] = "save_invalid"]
                /\ UNCHANGED invoice_data
           ELSE /\ invoice_data' = [invoice_data EXCEPT ![p] = r.data]
                /\ pc' = [pc EXCEPT ![p] = "email"]
                /\ UNCHANGED pending
    /\ hist' = SetHist(p, [CurHist(p) EXCEPT
                   !.text = text[p],
                   !.calls = IF extract_invoice_details(text[p][1]).raises
                             THEN @ ELSE @ + 1])
    /\ UNCHANGED <<dbvars, tempfiles, clock, uuids, faults, active, input, files, results,
                   temp_file, text, client_id, idlog>>

\* if client_data.get('email'): get_client_by_email
LookupEmail(p) ==
    /\ pc[p] = "email"
    /\ LET client_data == invoice_data[p]["client"]
           email == Get(client_data, "email")
           existing_client == get_client_by_email(clients, email)
       IN  \E fault \in BOOLEAN :
             /\ ~Truthy(email) => ~fault
             /\ Fault(fault)
             /\ IF fault
                THEN /\ pc' = [pc EXCEPT ![p] = "placeholder"]
                     /\ hist' = SetHist(p, [CurHist(p) EXCEPT !.raised = "email"])
                     /\ UNCHANGED client_id
                ELSE IF Truthy(email) /\ existing_client # None
                THEN /\ client_id' = [client_id EXCEPT ![p] = Some(existing_client[1].id)]
                     /\ hist' = SetHist(p, [CurHist(p) EXCEPT
                                    !.cid = Some(existing_client[1].id),
                                    !.via = "email"])
                     /\ pc' = [pc EXCEPT ![p] = "route"]
                ELSE /\ pc' = [pc EXCEPT ![p] = "phone"]
                     /\ UNCHANGED <<client_id, hist>>
    /\ UNCHANGED <<dbvars, tempfiles, clock, uuids, active, input, files, results,
                   temp_file, text, invoice_data, pending, idlog>>

\* if client_data.get('phone'): get_client_by_phone
LookupPhone(p) ==
    /\ pc[p] = "phone"
    /\ LET client_data == invoice_data[p]["client"]
           phone == Get(client_data, "phone")
           existing_client == get_client_by_phone(clients, phone)
       IN  \E fault \in BOOLEAN :
             /\ ~Truthy(phone) => ~fault
             /\ Fault(fault)
             /\ IF fault
                THEN /\ pc' = [pc EXCEPT ![p] = "placeholder"]
                     /\ hist' = SetHist(p, [CurHist(p) EXCEPT !.raised = "phone"])
                     /\ UNCHANGED client_id
                ELSE IF Truthy(phone) /\ existing_client # None
                THEN /\ client_id' = [client_id EXCEPT ![p] = Some(existing_client[1].id)]
                     /\ hist' = SetHist(p, [CurHist(p) EXCEPT
                                    !.cid = Some(existing_client[1].id),
                                    !.via = "phone"])
                     /\ pc' = [pc EXCEPT ![p] = "route"]
                ELSE /\ pc' = [pc EXCEPT ![p] = "create"]
                     /\ UNCHANGED <<client_id, hist>>
    /\ UNCHANGED <<dbvars, tempfiles, clock, uuids, active, input, files, results,
                   temp_file, text, invoice_data, pending, idlog>>

\* The dict _handle_client_processing passes to create_client when no
\* existing client was found.
NewClientData(client_data) ==
    [name |-> GetDefault(client_data, "name", Some("Unknown Client")),
     email |-> Get(client_data, "email"),
     phone |-> Get(client_data, "phone"),
     address |-> Get(client_data, "address")]

\* The dict passed to create_client by the except branch.
PlaceholderData ==
    [name |-> Some("Unknown Client"), email |-> Some("unknown@gmail.com")]

\* return self.db_manager.create_client({...}) of the try branch
CreateClient(p) ==
    /\ pc[p] = "create"
    /\ LET id == uuids + 1
           row == ClientRow(id, NewClientData(invoice_data[p]["client"]), Doc(p))
           violated == ClientsConstraint(clients, row)
       IN  \E fault \in BOOLEAN :
             /\ violated # None => ~fault
             /\ Fault(fault)
             /\ uuids' = id
             /\ IF fault \/ violated # None
                THEN /\ pc' = [pc EXCEPT ![p] = "placeholder"]
                     /\ hist' = SetHist(p, [CurHist(p) EXCEPT !.raised = "create"])
                     /\ UNCHANGED <<clients, client_id>>
                ELSE /\ clients' = create_client(clients, row)
                     /\ client_id' = [client_id EXCEPT ![p] = Some(id)]
                     /\ hist' = SetHist(p, [CurHist(p) EXCEPT
                                    !.cid = Some(id), !.via = "create"])
                     /\ pc' = [pc EXCEPT ![p] = "route"]
    /\ UNCHANGED <<invoices, invalid_invoices, tempfiles, clock, active, input, files,
                   results, temp_file, text, invoice_data, pending, idlog>>

\* except branch of _handle_client_processing: create_client of the
\* placeholder; if that raises too, the outer except of process_invoice runs.
CreatePlaceholder(p) ==
    /\ pc[p] = "placeholder"
    /\ LET id == uuids + 1
           row == ClientRow(id, PlaceholderData, Doc(p))
           violated == ClientsConstraint(clients, row)
       IN  \E fault \in BOOLEAN :
             /\ violated # None => ~fault
             /\ Fault(fault)
             /\ uuids' = id
             /\ IF fault \/ violated # None
                THEN /\ pending' = OuterExcept(p, IF fault THEN DbError ELSE violated[1])
                     /\ pc' = [pc EXCEPT ![p] = "save_invalid"]
                     /\ UNCHANGED <<clients, client_id, hist>>
                ELSE /\ clients' = create_client(clients, row)
                     /\ client_id' = [client_id EXCEPT ![p] = Some(id)]
                     /\ hist' = SetHist(p, [CurHist(p) EXCEPT
                                    !.cid = Some(id), !.via = "placeholder"])
                     /\ pc' = [pc EXCEPT ![p] = "route"]
                     /\ UNCHANGED pending
    /\ UNCHANGED <<invoices, invalid_invoices, tempfiles, clock, active, input, files,
                   results, temp_file, text, invoice_data, idlog>>

\* From the currency check to the commit of the INSERT INTO invoices, and to
\* the result appended by process_files when the INSERT succeeded.
RouteInvoice(p) ==
    /\ pc[p] = "route"
    /\ IF missing_required_field(invoice_data[p]) # None
       THEN /\ pending' = [pending EXCEPT ![p] =
                  Some([data |-> invoice_data[p],
                        error_message |-> "Missing required field: "
                                            \o missing_required_field(invoice_data[p])[1],
                        result |-> Result("error", Filename(p),
                                          Some("Missing required field: "
                                                 \o missing_required_field(invoice_data[p])[1]),
                                          Some(invoice_data[p]))])]
            /\ pc' = [pc EXCEPT ![p] = "save_invalid"]
            /\ UNCHANGED <<invoices, clock, faults, results, invoice_data, hist, idlog>>
       ELSE LET now == clock + 1
                invoice_id == InvoiceId(Get(invoice_data[p], "invoice_number"), now)
                d == WithDefaults(invoice_data[p], invoice_id, now)
                row == InvoiceRow(d, invoice_id, client_id[p], Doc(p))
                violated == InvoicesConstraint(invoices, row)
            IN  \E fault \in BOOLEAN :
                  /\ violated # None => ~fault
                  /\ Fault(fault)
                  /\ clock' = now
                  /\ invoice_data' = [invoice_data EXCEPT ![p] = d]
                  /\ idlog' = idlog \cup
                        {[invoice_number |-> Get(invoice_data[p], "invoice_number"),
                          now |-> now, text |-> text[p][1], id |-> invoice_id]}
                  /\ IF fault \/ violated # None
                     THEN LET e == IF fault THEN DbError ELSE violated[1]
                          IN  /\ pending' = [pending EXCEPT ![p] =
                                    Some([data |-> d,
                                          error_message |-> "Failed to save invoice: " \o e,
                                          result |-> Result("error", Filename(p),
                                                            Some("Failed to save invoice"),
                                                            Some(d))])]
                              /\ hist' = SetHist(p, [CurHist(p) EXCEPT
                                             !.insert = "raised", !.now = now])
                              /\ pc' = [pc EXCEPT ![p] = "save_invalid"]
                              /\ UNCHANGED <<invoices, results>>
                     ELSE /\ invoices' = Append(invoices, row)
                          /\ results' = [results EXCEPT ![p] =
                                Append(@, Result("success", Filename(p), None, Some(d)))]
                          /\ hist' = SetHist(p, [CurHist(p) EXCEPT
                                         !.insert = "ok", !.now = now,
                                         !.status = Some("success")])
                          /\ pc' = [pc EXCEPT ![p] = "finally"]
                          /\ UNCHANGED pending
    /\ UNCHANGED <<clients, invalid_invoices, tempfiles, uuids, active, input, files,
                   temp_file, text, client_id>>

\* save_invalid_invoice (an INSERT that raises is logged and swallowed), the
\* error result process_invoice returns and its append by process_files.
SaveInvalid(p) ==
    /\ pc[p] = "save_invalid"
    /\ \E fault \in BOOLEAN :
         /\ Fault(fault)
         /\ invalid_invoices' =
               IF fault THEN invalid_invoices
               ELSE Append(invalid_invoices,
                           InvalidRow(pending[p][1].data,
                                      pending[p][1].error_message, Doc(p)))
    /\ results' = [results EXCEPT ![p] = Append(@, pending[p][1].result)]
    /\ hist' = SetHist(p, [CurHist(p) EXCEPT !.status = Some("error")])
    /\ pc' = [pc EXCEPT ![p] = "finally"]
    /\ UNCHANGED <<clients, invoices, tempfiles, clock, uuids, active, input, files,
                   temp_file, text, invoice_data, client_id, pending, idlog>>

-----------------------------------------------------------------------------

Step(p) ==
    \/ StartFile(p)
    \/ ExtractText(p)
    \/ ExtractDetails(p)
    \/ LookupEmail(p)
    \/ LookupPhone(p)
    \/ CreateClient(p)
    \/ CreatePlaceholder(p)
    \/ RouteInvoice(p)
    \/ SaveInvalid(p)
    \/ Finally(p)
    \/ Return(p)

Next == \E p \in active : Step(p)

Spec == Init /\ [][Next]_vars

\* Two batch invocations at the same time, each with one upload; their
\* database calls interleave.
InitConcurrent ==
    /\ InitWith({1, 2})
    /\ \A p \in Procs : Len(input[p]) = 1

SpecConcurrent == InitConcurrent /\ [][Next]_vars

-----------------------------------------------------------------------------
(* The pattern lists of _extract_invoice_details.  A text is given by what *)
(* re.search returns on it for each pattern of a list: None, or the groups *)
(* of the match.  The loops over the lists are those of the code.          *)

MaxMatching == 2   \* patterns of one list that match the same text

PatternFields ==
    {"invoice_number", "date", "due_date", "total", "subtotal", "tax",
     "discount", "bill_to"}

\* Number of groups of each pattern, in list order.  Adjacent string
\* literals without a comma are one pattern: the third entry of
\* subtotal_patterns and of tax_patterns is the concatenation of two.
Groups(f) ==
    CASE f = "invoice_number" -> [i \in 1..12 |-> 1]
      [] f = "date" -> [i \in 1..11 |-> 1]
      [] f = "due_date" -> [i \in 1..8 |-> 1]
      [] f = "total" -> [i \in 1..14 |-> 1]
      [] f = "subtotal" -> <<1, 1, 2, 1, 1, 1, 1>>
      [] f = "tax" -> <<2, 1, 3, 2, 1, 2, 1, 1>>
      [] f = "discount" -> <<2, 2, 1>>
      [] f = "bill_to" -> [i \in 1..7 |-> 1]

\* Two matches of pattern i of the list of f: groups the pattern can capture.
\* (\d+\.?\d* captures digits with at most one point, \d+,\d{2} a decimal
\* comma, [0-9,]+\.[0-9]{2} any run of digits and commas before the cents.)
Options(f, i) ==
    CASE f = "invoice_number" -> << <<"51">>, <<"6508-985">> >>
      [] f \in {"date", "due_date"} -> << <<"19-Feb-1993">>, <<"19/02/1993">> >>
      [] f = "bill_to" -> << <<"Acme Corp">>, <<"Bob ">> >>
      [] f = "total" /\ i \in {2, 4} -> << <<"734,33">>, <<"28,18">> >>
      [] f = "total" /\ i = 11 -> << <<"734.33">>, <<"734,33">> >>
      [] f = "total" /\ i = 14 -> << <<"734.33">>, <<",234.56">> >>
      [] f = "subtotal" /\ i = 2 -> << <<"734,33">>, <<"28,18">> >>
      [] f = "subtotal" /\ i = 3 -> << <<"734.33", "28.18">>, <<"28.18", "734,33">> >>
      [] f = "subtotal" /\ i = 7 -> << <<"734.33">>, <<",234.56">> >>
      [] f = "tax" /\ i = 3 -> << <<"28.18", "3.89", "734.33">>, <<"734.33", "7", "28.18">> >>
      [] f = "tax" /\ i = 8 -> << <<"734.33">>, <<"1,234.56">> >>
      [] f = "discount" /\ i = 3 -> << <<"5.00">>, <<"1,234.56">> >>
      [] f \in {"tax", "discount"} /\ Groups(f)[i] = 2 ->
            << <<"3.89", "28.18">>, <<"7", "734.33">> >>
      [] OTHER -> << <<"734.33">>, <<"28.18">> >>

\* str.replace(',', '.')
replace(s) ==
    CASE s = "734,33" -> "734.33"
      [] s = "28,18" -> "28.18"
      [] s = ",234.56" -> ".234.56"
      [] s = "1,234.56" -> "1.234.56"
      [] OTHER -> s

\* float(s), in hundredths; None: ValueError.
float(s) ==
    CASE s = "734.33" -> Some(73433)
      [] s = "28.18" -> Some(2818)
      [] s = "3.89" -> Some(389)
      [] s = "5.00" -> Some(500)
      [] s = "7" -> Some(700)
      [] OTHER -> None

\* str.strip()
strip(s) == IF s = "Bob " THEN "Bob" ELSE s

ValueError == "could not convert string to float"

\* What a loop leaves: the value of the field, the exception that left the
\* loop (None if none did), the index of the last pattern searched.
Found(value, i) == [value |-> value, error |-> None, tried |-> i]
Raised(e, i) == [value |-> None, error |-> Some(e), tried |-> i]

\* invoice_number, date, due_date: group 1 of the first match, then break.
RECURSIVE first_group(_, _)
first_group(m, i) ==
    IF i > Len(m) THEN Found(None, Len(m))
    ELSE IF m[i] # None THEN Found(Some(m[i][1][1]), i)
    ELSE first_group(m, i + 1)

\* bill_to: group 1 of the first match, stripped.
RECURSIVE buyer_info(_, _)
buyer_info(m, i) ==
    IF i > Len(m) THEN Found(None, Len(m))
    ELSE IF m[i] # None THEN Found(Some(strip(m[i][1][1])), i)
    ELSE buyer_info(m, i + 1)

\* total, subtotal: float of group 1 with its commas replaced; on ValueError
\* the loop continues with the next pattern.
RECURSIVE amount(_, _)
amount(m, i) ==
    IF i > Len(m) THEN Found(None, Len(m))
    ELSE IF m[i] # None /\ float(replace(m[i][1][1])) # None
    THEN Found(float(replace(m[i][1][1])), i)
    ELSE amount(m, i + 1)

\* tax: of the first match, float of group 2 if the match has more than one
\* group, else of group 1; a ValueError leaves the function.
RECURSIVE tax(_, _)
tax(m, i) ==
    IF i > Len(m) THEN Found(None, Len(m))
    ELSE IF m[i] = None THEN tax(m, i + 1)
    ELSE LET g == m[i][1]
         IN  IF Len(g) > 1
             THEN IF float(g[1]) = None \/ float(g[2]) = None
                  THEN Raised(ValueError, i)
                  ELSE Found(float(g[2]), i)
             ELSE IF float(g[1]) = None
                  THEN Raised(ValueError, i)
                  ELSE Found(float(g[1]), i)

\* discount: of the first match, float of group 1, then float of group 2;
\* a match without group 2 raises IndexError.
RECURSIVE discount(_, _)
discount(m, i) ==
    IF i > Len(m) THEN Found(None, Len(m))
    ELSE IF m[i] = None THEN discount(m, i + 1)
    ELSE LET g == m[i][1]
         IN  IF float(g[1]) = None THEN Raised(ValueError, i)
             ELSE IF Len(g) < 2 THEN Raised("no such group", i)
             ELSE IF float(g[2]) = None THEN Raised(ValueError, i)
             ELSE Found(float(g[2]), i)

\* The loop of field f on the matches m.
extract_field(f, m) ==
    CASE f \in {"invoice_number", "date", "due_date"} -> first_group(m, 1)
      [] f = "bill_to" -> buyer_info(m, 1)
      [] f \in {"total", "subtotal"} -> amount(m, 1)
      [] f = "tax" -> tax(m, 1)
      [] f = "discount" -> discount(m, 1)

\* The texts: a field, and for each pattern of its list what re.search
\* returns; at most MaxMatching patterns match.
Matches(f) ==
    LET n == Len(Groups(f))
    IN  UNION { { [i \in 1..n |-> IF i \in S THEN Some(Options(f, i)[c[i]]) ELSE None]
                  : c \in [S -> {1, 2}] }
                : S \in {T \in SUBSET (1..n) : Cardinality(T) <= MaxMatching} }

InitFields ==
    /\ clients = <<>>
    /\ invoices = <<>>
    /\ invalid_invoices = <<>>
    /\ tempfiles = {}
    /\ clock = 0
    /\ uuids = 0
    /\ faults = 0
    /\ active = {1}
    /\ pc = [p \in Procs |-> IF p = 1 THEN "search" ELSE "off"]
    /\ input = [p \in Procs |-> <<>>]
    /\ files = [p \in Procs |-> <<>>]
    /\ results = [p \in Procs |-> <<>>]
    /\ temp_file = [p \in Procs |-> None]
    /\ \E f \in PatternFields : \E m \in Matches(f) :
         text = [p \in Procs |-> IF p = 1 THEN Some([field |-> f, matches |-> m])
                                 ELSE None]
    /\ invoice_data = [p \in Procs |-> EmptyDict]
    /\ client_id = [p \in Procs |-> None]
    /\ pending = [p \in Procs |-> None]
    /\ hist = [p \in Procs |-> <<>>]
    /\ idlog = {}

\* The loop over the pattern list of one field of _extract_invoice_details;
\* an exception leaves the function and no field is extracted.
ExtractField(p) ==
    /\ pc[p] = "search"
    /\ LET f == text[p][1].field
           r == extract_field(f, text[p][1].matches)
       IN  /\ invoice_data' = [invoice_data EXCEPT ![p] =
                 IF r.error = None THEN [k \in {f} |-> r.value] ELSE @]
           /\ pending' = [pending EXCEPT ![p] = r.error]
           /\ hist' = [hist EXCEPT ![p] = <<[tried |-> r.tried]>>]
    /\ pc' = [pc EXCEPT ![p] = "extracted"]
    /\ UNCHANGED <<dbvars, tempfiles, clock, uuids, faults, active, input, files,
                   results, temp_file, text, client_id, idlog>>

NextFields == \E p \in active : ExtractField(p)

SpecFields == InitFields /\ [][NextFields]_vars

-----------------------------------------------------------------------------
(* FinalAmountExtractor.clean_amount (amount_extractor.py).  Strings are   *)
(* sequences of characters; a float is [neg, mant, scale]: the number      *)
(* (-)mant / 10^scale.                                                      *)

MaxLen == 4        \* length of the strings handed to clean_amount

AmountChars == {"0", "1", "2", ",", ".", "-", " "}

\* Amounts the specification of the normalization names.
AmountExamples ==
    { <<"1", "2", "3", "4", ",", "5", "6">>,
      <<"1", ".", "2", "3", "4", ",", "5", "6">>,
      <<"1", ",", "2", "3", "4", ".", "5", "6">>,
      <<"1", ",", "2", "3", "4">>,
      <<"1", " ", "2", "3", "4", ",", "5", "6", " ", "E", "U", "R">> }

RECURSIVE Strings(_)
Strings(n) ==
    IF n = 0 THEN { <<>> }
    ELSE LET shorter == Strings(n - 1)
         IN  shorter \cup {Append(s, c) : s \in shorter, c \in AmountChars}

Digits == {"0", "1", "2", "3", "4", "5", "6", "7", "8", "9"}

DigitVal(c) ==
    CASE c = "0" -> 0 [] c = "1" -> 1 [] c = "2" -> 2 [] c = "3" -> 3
      [] c = "4" -> 4 [] c = "5" -> 5 [] c = "6" -> 6 [] c = "7" -> 7
      [] c = "8" -> 8 [] c = "9" -> 9

RECURSIVE Pow10(_)
Pow10(k) == IF k = 0 THEN 1 ELSE 10 * Pow10(k - 1)

\* The number written by a string of digits.
RECURSIVE Num(_)
Num(s) ==
    IF s = <<>> THEN 0
    ELSE 10 * Num(SubSeq(s, 1, Len(s) - 1)) + DigitVal(s[Len(s)])

\* re.sub(r'[^\d,.-]', '', amount_str)
KeptChar(c) == c \in Digits \cup {",", ".", "-"}
sub(s) == SelectSeq(s, KeptChar)

\* c in s, s.rindex(c), s.replace(a, b) and s.replace(a, '')
In(c, s) == \E i \in 1..Len(s) : s[i] = c
rindex(s, c) == CHOOSE i \in 1..Len(s) : s[i] = c /\ \A j \in (i + 1)..Len(s) : s[j] # c
replace_char(s, a, b) == [i \in 1..Len(s) |-> IF s[i] = a THEN b ELSE s[i]]
remove_char(s, a) == LET Other(c) == c # a IN SelectSeq(s, Other)

\* float(s) of a string of digits, points and minus signs: an optional
\* sign, then digits with at most one point and at least one digit; None
\* stands for ValueError.
float_of(s) ==
    LET neg == s # <<>> /\ s[1] = "-"
        body == IF neg THEN Tail(s) ELSE s
        points == {i \in 1..Len(body) : body[i] = "."}
        digits == remove_char(body, ".")
    IN  IF \/ digits = <<>>
           \/ \E i \in 1..Len(digits) : digits[i] \notin Digits
           \/ Cardinality(points) > 1
        THEN None
        ELSE Some([neg |-> neg, mant |-> Num(digits),
                   scale |-> IF points = {} THEN 0
                             ELSE Len(body) - (CHOOSE i \in points : TRUE)])

\* round(amount, 2) of a positive float, in hundredths.  (No string of the
\* inputs lies half-way between two hundredths.)
round2(x) ==
    IF x.scale <= 2 THEN x.mant * Pow10(2 - x.scale)
    ELSE (x.mant + Pow10(x.scale - 2) \div 2) \div Pow10(x.scale - 2)

\* A clean_amount without the branch for a comma alone.
clean_amount_no_comma(amount_str) ==
    LET s == sub(amount_str)
        t == IF In(",", s) /\ In(".", s)
             THEN IF rindex(s, ".") > rindex(s, ",")
                  THEN remove_char(s, ",")
                  ELSE replace_char(remove_char(s, "."), ",", ".")
             ELSE s
        parsed == float_of(t)
    IN  IF parsed = None THEN None
        ELSE IF ~parsed[1].neg /\ parsed[1].mant > 0
             THEN Some(round2(parsed[1])) ELSE None

\* clean_amount: the amount in hundredths, or None.
clean_amount(amount_str) ==
    LET s == sub(amount_str)
        t == IF In(",", s) /\ In(".", s)
             THEN IF rindex(s, ".") > rindex(s, ",")
                  THEN remove_char(s, ",")
                  ELSE replace_char(remove_char(s, "."), ",", ".")
             ELSE IF In(",", s)
                  THEN replace_char(s, ",", ".")
                  ELSE s
        parsed == float_of(t)
    IN  IF parsed = None THEN None
        ELSE IF ~parsed[1].neg /\ parsed[1].mant > 0
             THEN Some(round2(parsed[1])) ELSE None

\* Every variable of the pipeline at rest, but pc and text of invocation 1.
AtRest(at, txt) ==
    /\ clients = <<>>
    /\ invoices = <<>>
    /\ invalid_invoices = <<>>
    /\ tempfiles = {}
    /\ clock = 0
    /\ uuids = 0
    /\ faults = 0
    /\ active = {1}
    /\ pc = [p \in Procs |-> IF p = 1 THEN at ELSE "off"]
    /\ input = [p \in Procs |-> <<>>]
    /\ files = [p \in Procs |-> <<>>]
    /\ results = [p \in Procs |-> <<>>]
    /\ temp_file = [p \in Procs |-> None]
    /\ text = [p \in Procs |-> IF p = 1 THEN Some(txt) ELSE None]
    /\ invoice_data = [p \in Procs |-> EmptyDict]
    /\ client_id = [p \in Procs |-> None]
    /\ pending = [p \in Procs |-> None]
    /\ hist = [p \in Procs |-> <<>>]
    /\ idlog = {}

InitAmount == \E s \in Strings(MaxLen) \cup AmountExamples : AtRest("clean_amount", s)

\* value = cls.clean_amount(value_str)
CleanAmount(p) ==
    /\ pc[p] = "clean_amount"
    /\ invoice_data' = [invoice_data EXCEPT ![p] =
                           [value |-> clean_amount(text[p][1])]]
    /\ pc' = [pc EXCEPT ![p] = "cleaned"]
    /\ UNCHANGED <<dbvars, tempfiles, clock, uuids, faults, active, input, files,
                   results, temp_file, text, client_id, pending, hist, idlog>>

NextAmount == \E p \in active : CleanAmount(p)

SpecAmount == InitAmount /\ [][NextAmount]_vars

-----------------------------------------------------------------------------
(* The line items of _extract_invoice_details: the normalization of the    *)
(* text and the finditer loop over item_pattern, on sequences of           *)
(* characters.                                                             *)

MaxChars == 5      \* length of the recognized text

TextChars == {"a", "2", ".", "\n", " "}

Whitespace == {" ", "\n"}      \* \s
WordChars == {"a", "2"}        \* \w
NumberChars == {"2", "."}      \* [0-9.] and [0-9,.]

RECURSIVE CharTexts(_)
CharTexts(n) ==
    IF n = 0 THEN { <<>> }
    ELSE LET shorter == CharTexts(n - 1)
         IN  shorter \cup {Append(s, c) : s \in shorter, c \in TextChars}

\* str.strip()
RECURSIVE lstrip(_)
lstrip(s) == IF s # <<>> /\ s[1] \in Whitespace THEN lstrip(Tail(s)) ELSE s

RECURSIVE rstrip(_)
rstrip(s) ==
    IF s # <<>> /\ s[Len(s)] \in Whitespace
    THEN rstrip(SubSeq(s, 1, Len(s) - 1)) ELSE s

strip_chars(s) == rstrip(lstrip(s))

\* re.sub(r'\s+', ' ', s): every run of whitespace becomes one space.
RECURSIVE collapse(_)
collapse(s) ==
    IF s = <<>> THEN <<>>
    ELSE IF s[1] \in Whitespace THEN <<" ">> \o collapse(lstrip(s))
    ELSE <<s[1]>> \o collapse(Tail(s))

\* A normalization that leaves the text as it is.
normalize_kept(s) == s

\* text = re.sub(r'\s+', ' ', text.strip())
normalize(s) == collapse(strip_chars(s))

\* The last index of the longest run of characters of C that starts at i
\* (i - 1 if there is none).
RECURSIVE RunEnd(_, _, _)
RunEnd(s, i, C) ==
    IF i <= Len(s) /\ s[i] \in C THEN RunEnd(s, i + 1, C) ELSE i - 1

\* The ends j of an ITEMS group s[i..j] after which the rest of
\* item_pattern matches: a newline, a run of [0-9.], a newline, a run of
\* [0-9,.].
ItemEnds(s, i) ==
    {j \in i..Len(s) :
        /\ \A k \in i..j : s[k] \in WordChars \cup Whitespace
        /\ j + 1 <= Len(s) /\ s[j + 1] = "\n"
        /\ LET q == RunEnd(s, j + 2, NumberChars)
           IN  /\ q >= j + 2
               /\ q + 1 <= Len(s) /\ s[q + 1] = "\n"
               /\ RunEnd(s, q + 2, NumberChars) >= q + 2 }

\* The match of item_pattern that starts at i (ITEMS is greedy).
ItemMatch(s, i) ==
    LET j == CHOOSE e \in ItemEnds(s, i) : \A d \in ItemEnds(s, i) : d <= e
        q == RunEnd(s, j + 2, NumberChars)
        r == RunEnd(s, q + 2, NumberChars)
    IN  [ITEMS |-> SubSeq(s, i, j), QUANTITY |-> SubSeq(s, j + 2, q),
         PRICE |-> SubSeq(s, q + 2, r), end |-> r]

\* re.finditer(item_pattern, text), from position pos on.
RECURSIVE finditer(_, _)
finditer(s, pos) ==
    LET starts == {i \in pos..Len(s) : ItemEnds(s, i) # {}}
    IN  IF starts = {} THEN <<>>
        ELSE LET i == CHOOSE a \in starts : \A b \in starts : a <= b
                 m == ItemMatch(s, i)
             IN  <<m>> \o finditer(s, m.end + 1)

\* The loop over the matches: a match whose quantity or price float()
\* rejects is skipped.
RECURSIVE item_dicts(_)
item_dicts(ms) ==
    IF ms = <<>> THEN <<>>
    ELSE LET m == ms[1]
             quantity == float_of(m.QUANTITY)
             price == float_of(remove_char(m.PRICE, ","))
         IN  IF quantity = None \/ price = None
             THEN item_dicts(Tail(ms))
             ELSE <<[ITEMS |-> strip_chars(m.ITEMS), QUANTITY |-> quantity[1],
                     PRICE |-> price[1]]>> \o item_dicts(Tail(ms))

\* The list `items` of _extract_invoice_details for the text it is given.
extract_items(s) == item_dicts(finditer(normalize(s), 1))

InitItems == \E s \in CharTexts(MaxChars) : AtRest("items", s)

\* _extract_invoice_details, as far as the items are concerned.
ExtractItems(p) ==
    /\ pc[p] = "items"
    /\ invoice_data' = [invoice_data EXCEPT ![p] =
                           [items |-> extract_items(text[p][1])]]
    /\ pc' = [pc EXCEPT ![p] = "extracted"]
    /\ UNCHANGED <<dbvars, tempfiles, clock, uuids, faults, active, input, files,
                   results, temp_file, text, client_id, pending, hist, idlog>>

NextItems == \E p \in active : ExtractItems(p)

SpecItems == InitItems /\ [][NextItems]_vars

-----------------------------------------------------------------------------
(* ImageProcessor: enhance_image and deskew_image, as _process_single_image
   chains them.  A page is a color mode and a row of pixels; what OpenCV and
   PIL compute on success is left open (any single-channel page of the same
   size), what the except branches return is modelled exactly. *)

MaxPixels == 2

Channel == {0, 255}

Gray == {0, 128, 255}

RGBPixels == {<<r, g, b>> : r \in Channel, g \in Channel, b \in Channel}

PixelRows(S, n) == UNION {[1..k -> S] : k \in 1..n}

Images(n) ==
    {[mode |-> "L", pixels |-> px] : px \in PixelRows(Gray, n)}
    \cup {[mode |-> "RGB", pixels |-> px] : px \in PixelRows(RGBPixels, n)}

\* Image.convert('L') on an RGB page (ITU-R 601-2 luma, as PIL computes it).
luma(px) == (px[1] * 19595 + px[2] * 38470 + px[3] * 7471 + 32768) \div 65536

convert(image) ==
    [mode |-> "L", pixels |-> [i \in 1..Len(image.pixels) |-> luma(image.pixels[i])]]

\* The calls of enhance_image's try block, in order.
EnhanceCalls == <<"convert", "array", "GaussianBlur", "adaptiveThreshold",
                  "fastNlMeansDenoising", "fromarray", "Contrast", "SHARPEN">>

\* The calls of deskew_image's try block, in order.
DeskewCalls == <<"array", "Canny", "HoughLinesP", "median", "shape",
                 "getRotationMatrix2D", "warpAffine", "fromarray">>

IndexOf(calls, c) == CHOOSE i \in 1..Len(calls) : calls[i] = c

\* The outcomes of HoughLinesP and of the median angle.
Skews == {"no lines", "level", "skewed"}

\* enhance_image: failing is the call that raises (None: no call raises),
\* out the pixels of the enhanced page.  The parameter image is rebound to
\* the converted page at line 38, and the except branch returns image.
enhance_image(image, failing, out) ==
    LET gray == IF image.mode # "L" THEN convert(image) ELSE image
    IN  IF failing = None THEN [mode |-> "L", pixels |-> out]
        ELSE IF failing[1] = "convert" THEN image
        ELSE gray

\* deskew_image: its parameter is never rebound.
deskew_image(image, failing, skew, out) ==
    IF failing # None THEN image
    ELSE IF skew = "skewed" THEN [mode |-> "L", pixels |-> out]
    ELSE image

\* The calls that can raise on this page.
EnhanceFailures(image) ==
    {None} \cup {Some(EnhanceCalls[i]) : i \in (IF image.mode = "L" THEN 2 ELSE 1)..Len(EnhanceCalls)}

\* height, width = img_array.shape raises ValueError on a three-channel
\* page; the calls after median are reached on a skewed page only.
DeskewFailures(image, skew) ==
    IF skew = "skewed" /\ image.mode # "L"
    THEN {Some(DeskewCalls[i]) : i \in 1..IndexOf(DeskewCalls, "shape")}
    ELSE {None} \cup {Some(DeskewCalls[i]) :
                        i \in 1..(IF skew = "skewed" THEN Len(DeskewCalls)
                                  ELSE IF skew = "no lines" THEN IndexOf(DeskewCalls, "HoughLinesP")
                                  ELSE IndexOf(DeskewCalls, "median"))}

InitImage == \E image \in Images(MaxPixels) : AtRest("enhance_image", image)

EnhanceImage(p) ==
    /\ pc[p] = "enhance_image"
    /\ \E failing \in EnhanceFailures(text[p][1]),
          out \in [1..Len(text[p][1].pixels) -> Gray] :
          invoice_data' = [invoice_data EXCEPT ![p] =
              [given |-> text[p][1],
               enhance_failed |-> failing,
               image |-> enhance_image(text[p][1], failing, out)]]
    /\ pc' = [pc EXCEPT ![p] = "deskew_image"]
    /\ UNCHANGED <<dbvars, tempfiles, clock, uuids, faults, active, input, files,
                   results, temp_file, text, client_id, pending, hist, idlog>>

DeskewImage(p) ==
    /\ pc[p] = "deskew_image"
    /\ \E skew \in Skews :
       \E failing \in DeskewFailures(invoice_data[p]["image"], skew),
          out \in [1..Len(invoice_data[p]["image"].pixels) -> Gray] :
          invoice_data' = [invoice_data EXCEPT ![p] =
              [given |-> invoice_data[p]["image"],
               enhance_failed |-> invoice_data[p]["enhance_failed"],
               deskew_failed |-> failing,
               image |-> deskew_image(invoice_data[p]["image"], failing, skew, out)]]
    /\ pc' = [pc EXCEPT ![p] = "image_to_string"]
    /\ UNCHANGED <<dbvars, tempfiles, clock, uuids, faults, active, input, files,
                   results, temp_file, text, client_id, pending, hist, idlog>>

NextImage == \E p \in active : EnhanceImage(p) \/ DeskewImage(p)

SpecImage == InitImage /\ [][NextImage]_vars

-----------------------------------------------------------------------------
(* Services: BusinessWorkflow.execute_sales_process, InvoiceService and the
   call of PaymentService.process_payment, on one SQLAlchemy session.  The
   session holds the objects it has loaded or added; commit writes them to
   the tables, nothing in these services rolls back.  The state of a call
   is kept in invoice_data[p], its arguments in text[p]. *)

MaxItems == 2    \* items of one sale

MaxStock == 2    \* stock_quantity of a product before the sale

Products == {1, 2}

Quantities == {1, 2}

unit_price(product_id) == IF product_id = 1 THEN 150000 ELSE 1000

product_name(product_id) == IF product_id = 1 THEN "Laptop Premium" ELSE "Mouse"

\* Product.stock_alert_threshold (column default).
stock_alert_threshold == 10

\* The one row of clients.
KnownClients == {1}

ItemLists(n) ==
    UNION {[1..k -> [product_id : Products \cup {3}, quantity : Quantities]] : k \in 0..n}

\* Positional parameters of AlertService.__init__ besides self.
AlertServiceParams == 0

\* Methods of the class AlertService.
AlertServiceMethods ==
    {"add_alert", "get_alerts", "mark_as_read", "mark_all_as_read",
     "clear_alerts", "get_unread_count"}

\* AlertService(*args): the object, or None when the call raises TypeError.
NewAlertService(nargs) ==
    IF nargs = AlertServiceParams THEN Some("AlertService") ELSE None

\* Calling method m of the alert service of a workflow: TRUE when the call
\* raises AttributeError.  A stand-in has every method and does nothing.
NoSuchMethod(alert_service, m) ==
    alert_service = "AlertService" /\ m \notin AlertServiceMethods

\* Wherefrom the code is entered: the constructor of BusinessWorkflow,
\* execute_sales_process on a workflow whose alert_service is an
\* AlertService() or a stand-in (an instance __init__ cannot build, see
\* NewAlertService), or create_invoice of an InvoiceService.
Entries ==
    { [call |-> "BusinessWorkflow", alert_service |-> "AlertService"],
      [call |-> "execute_sales_process", alert_service |-> "AlertService"],
      [call |-> "execute_sales_process", alert_service |-> "stand-in"],
      [call |-> "create_invoice", alert_service |-> "none"] }

\* The arguments of a call and the products table before it.
SalesCalls ==
    { [entry |-> e, client_id |-> c, items |-> it, payment_method |-> "check",
       stock |-> st] :
         e \in Entries, c \in KnownClients \cup {2}, it \in ItemLists(MaxItems),
         st \in [Products -> 0..MaxStock] }

\* Alert(type='system', message=str(e), related_type='transaction', status='critical')
SystemAlert(message) ==
    [type |-> "system", message |-> message, related_id |-> None,
     related_type |-> "transaction", status |-> "critical"]

\* The alerts _check_stock_alerts adds, in product order.
StockAlerts(stock) ==
    LET low(k) == stock[k] <= stock_alert_threshold
        alert(k) == [type |-> "stock", message |-> "Stock faible pour " \o product_name(k),
                     related_id |-> Some(k), related_type |-> "product", status |-> "active"]
    IN  (IF low(1) THEN <<alert(1)>> ELSE <<>>) \o (IF low(2) THEN <<alert(2)>> ELSE <<>>)

\* The session of a call that has not started.
SalesStart(c) ==
    [products |-> c.stock,     \* committed stock_quantity, per product
     session  |-> c.stock,     \* stock_quantity of the Product objects of the session
     invoices |-> <<>>,        \* committed rows of invoices
     alerts   |-> <<>>,        \* committed rows of alerts
     invoice  |-> None,        \* the Invoice object create_invoice builds
     rest     |-> c.items,     \* items the loop has not reached
     total    |-> 0,
     transaction |-> None,     \* what process_payment(...) evaluated to
     raised   |-> None,        \* str(e) of the exception raised
     result   |-> None]        \* what execute_sales_process returned

\* db_session.commit(): the dirty Product objects and the added objects are
\* written.
commit(s, new_alerts) ==
    [s EXCEPT !.products = s.session,
              !.alerts = s.alerts \o new_alerts]

InitSales ==
    \E c \in SalesCalls :
        /\ clients = <<>>
        /\ invoices = <<>>
        /\ invalid_invoices = <<>>
        /\ tempfiles = {}
        /\ clock = 0
        /\ uuids = 0
        /\ faults = 0
        /\ active = {1}
        /\ pc = [p \in Procs |-> IF p # 1 THEN "off"
                                 ELSE IF c.entry.call = "BusinessWorkflow" THEN "BusinessWorkflow"
                                 ELSE "create_invoice"]
        /\ input = [p \in Procs |-> <<>>]
        /\ files = [p \in Procs |-> <<>>]
        /\ results = [p \in Procs |-> <<>>]
        /\ temp_file = [p \in Procs |-> None]
        /\ text = [p \in Procs |-> IF p = 1 THEN Some(c) ELSE None]
        /\ invoice_data = [p \in Procs |-> IF p = 1 THEN SalesStart(c) ELSE EmptyDict]
        /\ client_id = [p \in Procs |-> None]
        /\ pending = [p \in Procs |-> None]
        /\ hist = [p \in Procs |-> <<>>]
        /\ idlog = {}

SalesUnchanged ==
    UNCHANGED <<dbvars, tempfiles, clock, uuids, faults, active, input, files,
                results, temp_file, text, client_id, pending, hist, idlog>>

\* An exception leaves create_invoice: to the except of execute_sales_process,
\* or to the caller of the service.
SalesRaise(p, s, message) ==
    /\ invoice_data' = [invoice_data EXCEPT ![p] = [s EXCEPT !.raised = Some(message)]]
    /\ pc' = [pc EXCEPT ![p] =
                 IF text[p][1].entry.call = "execute_sales_process" THEN "except"
                 ELSE "raised"]

\* BusinessWorkflow.__init__: AlertService(db_session) is called with one
\* argument.
NewBusinessWorkflow(p) ==
    /\ pc[p] = "BusinessWorkflow"
    /\ IF NewAlertService(1) = None
       THEN /\ invoice_data' = [invoice_data EXCEPT ![p]["raised"] =
                  Some("AlertService.__init__() takes 1 positional argument but 2 were given")]
            /\ pc' = [pc EXCEPT ![p] = "raised"]
       ELSE /\ pc' = [pc EXCEPT ![p] = "create_invoice"]
            /\ UNCHANGED invoice_data
    /\ SalesUnchanged

\* create_invoice up to the loop: the client is looked up, the Invoice
\* object is built (status 'draft') and not yet added to the session.
ValidateClient(p) ==
    /\ pc[p] = "create_invoice"
    /\ LET c == text[p][1]
           s == invoice_data[p]
       IN  IF c.client_id \notin KnownClients
           THEN SalesRaise(p, s, "Client introuvable")
           ELSE /\ invoice_data' = [invoice_data EXCEPT ![p] =
                      [s EXCEPT !.invoice = Some([client_id |-> c.client_id,
                                                  status |-> "draft",
                                                  invoice_products |-> <<>>,
                                                  subtotal |-> 0, tax |-> 0, total |-> 0])]]
                /\ pc' = [pc EXCEPT ![p] = "items"]
    /\ SalesUnchanged

\* One turn of the loop over items, or the end of the loop.
AddItem(p) ==
    /\ pc[p] = "items"
    /\ LET s == invoice_data[p]
       IN  IF s.rest = <<>>
           THEN /\ pc' = [pc EXCEPT ![p] = "commit"]
                /\ UNCHANGED invoice_data
           ELSE LET item == Head(s.rest)
                    k == item.product_id
                IN  IF k \notin Products
                    THEN SalesRaise(p, s, "Produit introuvable")
                    ELSE IF s.session[k] < item.quantity
                    THEN SalesRaise(p, s, "Stock insuffisant pour " \o product_name(k))
                    ELSE LET invoice_product ==
                                 [product_id |-> k, quantity |-> item.quantity,
                                  unit_price |-> unit_price(k),
                                  total_price |-> unit_price(k) * item.quantity]
                         IN  /\ invoice_data' = [invoice_data EXCEPT ![p] =
                                   [s EXCEPT !.invoice[1].invoice_products =
                                                 Append(@, invoice_product),
                                             !.session[k] = @ - item.quantity,
                                             !.total = @ + invoice_product.total_price,
                                             !.rest = Tail(@)]]
                             /\ pc' = [pc EXCEPT ![p] = "items"]
    /\ SalesUnchanged

\* The totals, db.add(invoice), db.commit(), _check_stock_alerts (its own
\* commit) and the return of create_invoice.
CommitInvoice(p) ==
    /\ pc[p] = "commit"
    /\ LET s == invoice_data[p]
           vat == (s.total * 2) \div 10
           invoice == [s.invoice[1] EXCEPT !.subtotal = s.total, !.tax = vat,
                                           !.total = s.total + vat]
           saved == commit([s EXCEPT !.invoice = Some(invoice),
                                     !.invoices = Append(@, invoice)], <<>>)
       IN  invoice_data' = [invoice_data EXCEPT ![p] =
                               commit(saved, StockAlerts(saved.session))]
    /\ pc' = [pc EXCEPT ![p] =
                 IF text[p][1].entry.call = "execute_sales_process" THEN "process_payment"
                 ELSE "returned"]
    /\ SalesUnchanged

\* transaction = self.payment_service.process_payment(...): process_payment
\* is an async def and the call is not awaited, so its body does not run and
\* transaction is the coroutine object.
CallProcessPayment(p) ==
    /\ pc[p] = "process_payment"
    /\ LET s == invoice_data[p]
       IN  invoice_data' = [invoice_data EXCEPT ![p] =
               [s EXCEPT !.transaction =
                   Some([coroutine |-> "process_payment",
                         invoice_id |-> Len(s.invoices),
                         payment_method |-> text[p][1].payment_method,
                         amount |-> s.invoice[1].total])]]
    /\ pc' = [pc EXCEPT ![p] = "check_alerts"]
    /\ SalesUnchanged

\* self.alert_service.check_pending_payments(), check_expired_products()
\* and the return of the success result.
CheckAlerts(p) ==
    /\ pc[p] = "check_alerts"
    /\ LET s == invoice_data[p]
           alert_service == text[p][1].entry.alert_service
       IN  IF NoSuchMethod(alert_service, "check_pending_payments")
           THEN SalesRaise(p, s,
                  "'AlertService' object has no attribute 'check_pending_payments'")
           ELSE /\ invoice_data' = [invoice_data EXCEPT ![p] =
                      [s EXCEPT !.result = Some([status |-> "success",
                                                 invoice |-> s.invoice,
                                                 transaction |-> s.transaction])]]
                /\ pc' = [pc EXCEPT ![p] = "returned"]
    /\ SalesUnchanged

\* The except branch of execute_sales_process: the alert is added and the
\* session committed, with whatever the session holds.
Except(p) ==
    /\ pc[p] = "except"
    /\ LET s == invoice_data[p]
       IN  invoice_data' = [invoice_data EXCEPT ![p] =
               [commit(s, <<SystemAlert(s.raised[1])>>) EXCEPT
                   !.result = Some([status |-> "error", message |-> s.raised[1]])]]
    /\ pc' = [pc EXCEPT ![p] = "returned"]
    /\ SalesUnchanged

NextSales ==
    \E p \in active :
        \/ NewBusinessWorkflow(p)
        \/ ValidateClient(p)
        \/ AddItem(p)
        \/ CommitInvoice(p)
        \/ CallProcessPayment(p)
        \/ CheckAlerts(p)
        \/ Except(p)

SpecSales == InitSales /\ [][NextSales]_vars

-----------------------------------------------------------------------------
(* Properties *)

\* The loop is through with file i of invocation p (its finally has run).
Finished(p, i) == i < Len(files[p]) \/ (i = Len(files[p]) /\ pc[p] \in {"loop", "done"})

\* process_invoice was called for file i of invocation p and has returned.
Returned(p, i) ==
    /\ hist[p][i].text # None
    /\ i < Len(files[p]) \/ pc[p] \in {"finally", "loop", "done"}

\* The rows of a table written for a document.
RowsOf(tbl, doc) == {k \in 1..Len(tbl) : tbl[k].doc = doc}

\* The invoice number extracted from the text of file i (None if the
\* extraction raised or the text never reached process_invoice).
NumberOf(p, i) ==
    IF hist[p][i].text = None THEN None
    ELSE LET r == extract_invoice_details(hist[p][i].text[1])
         IN  IF r.raises THEN None ELSE r.data.invoice_number

\* The email of the contact block extracted from the text of file i.
EmailOf(p, i) ==
    IF hist[p][i].text = None THEN None
    ELSE LET r == extract_invoice_details(hist[p][i].text[1])
         IN  IF r.raises THEN None ELSE r.data.client.email

\* The extension is one of .pdf, .jpg, .jpeg, .png, whatever its case.
Supported(filename) ==
    lower(splitext(filename)) \in
        { <<".", "p", "d", "f">>, <<".", "j", "p", "g">>,
          <<".", "j", "p", "e", "g">>, <<".", "p", "n", "g">> }

\* C1: once process_invoice has returned for a document, exactly one row has
\* been written for it, in invoices or in invalid_invoices, never in both
\* and never in neither, whichever store writes failed.
C1_ExactlyOneRow ==
    \A p \in active : \A i \in 1..Len(hist[p]) :
        Returned(p, i) =>
            Cardinality(RowsOf(invoices, <<p, i>>))
              + Cardinality(RowsOf(invalid_invoices, <<p, i>>)) = 1

\* C2: when the INSERT INTO invoices raised, process_invoice has written one
\* invalid_invoices row for the document, with a "Failed to save invoice"
\* message, no invoices row for it, and has returned status "error".
C2_InsertFailureRerouted ==
    \A p \in active : \A i \in 1..Len(hist[p]) :
        (Returned(p, i) /\ hist[p][i].insert = "raised") =>
            /\ Cardinality(RowsOf(invalid_invoices, <<p, i>>)) = 1
            /\ \A k \in RowsOf(invalid_invoices, <<p, i>>) :
                 \E e \in {DbError, "UNIQUE constraint failed: invoices.id"} :
                    invalid_invoices[k].error_message = "Failed to save invoice: " \o e
            /\ RowsOf(invoices, <<p, i>>) = {}
            /\ i <= Len(results[p]) /\ results[p][i].status = "error"

\* C3: process_files returns one result per input file, in input order;
\* a file that failed (extension, read, rasterizer, OCR, extraction) has an
\* entry with status "error", its filename and an error text, and the loop
\* goes on to the files after it.
C3_OneResultPerFile ==
    \A p \in active :
        LET all == files[p] \o input[p]
        IN  /\ Len(results[p]) =
                 IF pc[p] \in {"finally", "loop", "done"}
                 THEN Len(files[p]) ELSE Len(files[p]) - 1
            /\ \A i \in 1..Len(results[p]) :
                 i <= Len(all) /\ results[p][i].filename = all[i]
            /\ pc[p] = "done" => Len(results[p]) = Len(all)
            /\ \A i \in 1..Len(hist[p]) :
                 ( /\ Finished(p, i)
                   /\ \/ hist[p][i].fail # "none"
                      \/ /\ hist[p][i].text # None
                         /\ extract_invoice_details(hist[p][i].text[1]).raises )
                 => /\ i <= Len(results[p])
                    /\ results[p][i].status = "error"
                    /\ results[p][i].error # None

C3_Witness ==
    \E p \in active :
        /\ pc[p] = "done"
        /\ Len(results[p]) = 2
        /\ hist[p][1].fail = "ocr"
        /\ results[p][1].status = "error"
        /\ results[p][2].status = "success"

\* C4: a file whose extension is not .pdf, .jpg, .jpeg or .png (case
\* ignored) gets status "error"; no rasterizer or OCR call is made and no
\* temporary file is created for it, and no row of invoices,
\* invalid_invoices or clients is written for it.
C4_UnsupportedExtension ==
    \A p \in active : \A i \in 1..Len(files[p]) :
        ~Supported(files[p][i]) =>
            /\ i <= Len(results[p]) /\ results[p][i].status = "error"
            /\ ~hist[p][i].ocr
            /\ ~hist[p][i].temp
            /\ <<p, i>> \notin tempfiles
            /\ RowsOf(invoices, <<p, i>>) = {}
            /\ RowsOf(invalid_invoices, <<p, i>>) = {}
            /\ RowsOf(clients, <<p, i>>) = {}

C4_Witness ==
    \E p \in active :
        /\ pc[p] = "done"
        /\ Len(files[p]) = 2
        /\ files[p][1] = <<"d", ".", "P", "d", "F", ".", "E", "X", "E">>
        /\ results[p][1].status = "error"
        /\ results[p][2].status = "success"

\* C5: when the rasterizer or the OCR of a page failed, the document is
\* aborted: status "error", the text never reaches process_invoice, and no
\* invoices, invalid_invoices or clients row is written for it.
C5_OcrFailureAborts ==
    \A p \in active : \A i \in 1..Len(hist[p]) :
        hist[p][i].fail \in {"rasterize", "ocr"} =>
            /\ i <= Len(results[p]) /\ results[p][i].status = "error"
            /\ hist[p][i].text = None
            /\ RowsOf(invoices, <<p, i>>) = {}
            /\ RowsOf(invalid_invoices, <<p, i>>) = {}
            /\ RowsOf(clients, <<p, i>>) = {}

C5_Witness ==
    \E p \in active : \E i \in 1..Len(hist[p]) :
        /\ Finished(p, i)
        /\ hist[p][i].fail = "ocr"
        /\ hist[p][i].pages >= 1

\* C6: once process_files is through with a file, the temporary file
\* created for it no longer exists.
C6_TempFileRemoved ==
    \A p \in active : \A i \in 1..Len(files[p]) :
        Finished(p, i) => <<p, i>> \notin tempfiles

\* C7: two client resolutions in sequence for contact blocks with the same
\* non-null email return the same client id, and the second one creates no
\* clients row (stated for the runs in which nothing of the environment
\* failed).
C7_SameEmailSameClient ==
    \A p \in active : \A i \in 1..Len(hist[p]) : \A j \in 1..Len(hist[p]) :
        ( /\ faults = 0
          /\ j = i + 1
          /\ hist[p][i].cid # None /\ hist[p][j].cid # None
          /\ EmailOf(p, i) # None /\ EmailOf(p, i) = EmailOf(p, j) )
        => /\ hist[p][i].cid = hist[p][j].cid
           /\ RowsOf(clients, <<p, j>>) = {}

\* C8: no two clients rows share a non-null email.
C8_UniqueEmail ==
    \A i \in 1..Len(clients) : \A j \in 1..Len(clients) :
        (i # j /\ clients[i].email # None) => clients[i].email # clients[j].email

\* C9: processing a second document with the same non-empty invoice number
\* as a stored one reports "success", adds no invalid_invoices row, and
\* leaves exactly one invoices row with the id of that number (stated for
\* the runs in which nothing of the environment failed).
C9_ReprocessIdempotent ==
    \A p \in active : \A i \in 1..Len(hist[p]) : \A j \in 1..Len(hist[p]) :
        ( /\ faults = 0
          /\ i < j
          /\ Returned(p, j)
          /\ hist[p][i].insert = "ok" /\ hist[p][j].insert # "none"
          /\ Truthy(NumberOf(p, i)) /\ NumberOf(p, i) = NumberOf(p, j) )
        => /\ Cardinality({k \in 1..Len(invoices) :
                              invoices[k].id = md5(NumberOf(p, i)[1])}) = 1
           /\ j <= Len(results[p]) /\ results[p][j].status = "success"
           /\ RowsOf(invalid_invoices, <<p, j>>) = {}

\* C10: the id computed for a non-empty invoice number depends on that
\* number only: two processings with the same number compute the same id,
\* whatever the time and the other fields of the text.
C10_IdDependsOnlyOnNumber ==
    \A a \in idlog : \A b \in idlog :
        (Truthy(a.invoice_number) /\ a.invoice_number = b.invoice_number)
            => a.id = b.id

C10_Witness ==
    \E a \in idlog : \E b \in idlog :
        /\ Truthy(a.invoice_number)
        /\ a.invoice_number = b.invoice_number
        /\ a.now # b.now
        /\ a.text # b.text
        /\ a.id = b.id

\* The contact block extracted from the text of file i.
ContactOf(p, i) ==
    IF hist[p][i].text = None THEN NoFields.client
    ELSE LET r == extract_invoice_details(hist[p][i].text[1])
         IN  IF r.raises THEN NoFields.client ELSE r.data.client

\* C11: when a step of the try block of _handle_client_processing raised
\* (email lookup, phone lookup, creation of the new client), the document is
\* not written to invalid_invoices and is not left without a row: it has an
\* invoices row whose client_id is a placeholder client created for it
\* (stated for the documents whose INSERT INTO invoices did not raise).
C11_ResolverErrorStillPersisted ==
    \A p \in active : \A i \in 1..Len(hist[p]) :
        ( /\ Returned(p, i)
          /\ hist[p][i].raised # "none"
          /\ hist[p][i].insert # "raised" )
        => /\ RowsOf(invalid_invoices, <<p, i>>) = {}
           /\ \E k \in RowsOf(invoices, <<p, i>>) : \E c \in RowsOf(clients, <<p, i>>) :
                /\ invoices[k].client_id = Some(clients[c].id)
                /\ clients[c].name = Some("Unknown Client")

\* C12: _handle_client_processing is called at most once for a document,
\* a step never changes or removes a clients row that exists, and at most
\* one clients row is inserted for a document.
C12_ClientsOnlyInserted ==
    [][ /\ Len(clients') \in {Len(clients), Len(clients) + 1}
        /\ \A k \in 1..Len(clients) : clients'[k] = clients[k]
        /\ \A p \in active : \A i \in 1..Len(hist'[p]) :
             /\ hist'[p][i].calls <= 1
             /\ Cardinality(RowsOf(clients', <<p, i>>)) <= 1 ]_vars

C12_Witness ==
    /\ Len(clients) >= 3
    /\ clients[1] = BOB
    /\ \E p \in active : \E i \in 1..Len(hist[p]) : \E j \in 1..Len(hist[p]) :
         /\ hist[p][i].via = "create"
         /\ hist[p][j].via = "placeholder"
         /\ hist[p][i].calls = 1

\* C13: the phone lookup is made only for a contact block without email: a
\* resolution for a block with an email never returns the client found by
\* its phone.
C13_PhoneOnlyWithoutEmail ==
    \A p \in active : \A i \in 1..Len(hist[p]) :
        Truthy(ContactOf(p, i).email) => hist[p][i].via # "phone"

\* C14: when neither lookup found a client and the contact block has no
\* name, one clients row is created for the document, with the name
\* "Unknown Client" and the email, phone and address of the contact block,
\* and its id is returned.
C14_UnknownClientKeepsContact ==
    \A p \in active : \A i \in 1..Len(hist[p]) :
        ( /\ hist[p][i].cid # None
          /\ hist[p][i].via \in {"create", "placeholder"}
          /\ hist[p][i].raised \notin {"email", "phone"}
          /\ ~Truthy(ContactOf(p, i).name) )
        => /\ Cardinality(RowsOf(clients, <<p, i>>)) = 1
           /\ \A c \in RowsOf(clients, <<p, i>>) :
                /\ hist[p][i].cid = Some(clients[c].id)
                /\ clients[c].name = Some("Unknown Client")
                /\ clients[c].email = ContactOf(p, i).email
                /\ clients[c].phone = ContactOf(p, i).phone
                /\ clients[c].address = ContactOf(p, i).address

\* C15: nothing keeps two concurrent invocations from inserting two clients
\* rows with the same email.  An invocation whose lookups have missed is
\* about to call create_client; the row it inserts is accepted by the table
\* although a row with its email has been committed in the meantime, and
\* the table accepts a second row for any email it holds.
C15_NothingExcludesDuplicate ==
    /\ \A p \in active :
         pc[p] = "create" =>
            LET row == ClientRow(uuids + 1, NewClientData(invoice_data[p]["client"]), Doc(p))
            IN  row.name # None => ClientsConstraint(clients, row) = None
    /\ \A i \in 1..Len(clients) :
         ClientsConstraint(clients, [clients[i] EXCEPT !.id = uuids + 1]) = None

\* Both lookups missed before either insert was committed: two rows with the
\* email of the text, inserted by the two invocations.
C15_Witness ==
    \E i \in 1..Len(clients) : \E j \in 1..Len(clients) :
        /\ clients[i].email = Some("a@a.com")
        /\ clients[j].email = Some("a@a.com")
        /\ clients[i].doc = <<1, 1>>
        /\ clients[j].doc = <<2, 1>>

C17_DefaultsApplied ==
    /\ \A k \in 1..Len(invoices) :
         LET row == invoices[k]
             h == hist[row.doc[1]][row.doc[2]]
             d == extract_invoice_details(h.text[1]).data
         IN  /\ row.date # None /\ row.due_date # None
             /\ row.bill_to # None /\ row.invoice_number # None
             /\ row.date = IF Truthy(d.date) THEN d.date ELSE Some(Today(h.now))
             /\ row.due_date = IF Truthy(d.due_date) THEN d.due_date ELSE row.date
             /\ row.bill_to = IF Truthy(d.bill_to) THEN d.bill_to ELSE Some("Not found")
             /\ row.invoice_number = IF Truthy(d.invoice_number) THEN d.invoice_number
                                     ELSE Some("INV-" \o row.id.head)
    /\ \A p \in active : \A i \in 1..Len(hist[p]) :
         (Returned(p, i) /\ hist[p][i].cid # None /\ hist[p][i].insert # "raised")
            => /\ RowsOf(invoices, <<p, i>>) # {}
               /\ RowsOf(invalid_invoices, <<p, i>>) = {}
    /\ \A k \in 1..Len(invalid_invoices) :
         invalid_invoices[k].error_message \notin
            { "Failed to save invoice: NOT NULL constraint failed: invoices.invoice_number",
              "Missing required field: date", "Missing required field: due_date",
              "Missing required field: bill_to", "Missing required field: invoice_number" }

C17_Witness ==
    \E a \in 1..Len(invoices) : \E b \in 1..Len(invoices) :
        /\ hist[invoices[a].doc[1]][invoices[a].doc[2]].text = Some(T_NONAME)
        /\ invoices[a].date = Some("2026-11-01")
        /\ invoices[a].due_date = Some("2026-11-01")
        /\ invoices[a].bill_to = Some("Not found")
        /\ hist[invoices[b].doc[1]][invoices[b].doc[2]].text = Some(T_BOTH)
        /\ invoices[b].due_date = Some("19/02/1993")
        /\ invoices[b].invoice_number = Some("INV-" \o invoices[b].id.head)

\* C18: the invalid_invoices row of a document that had reached the INSERT
\* INTO invoices carries every value that was extracted from its text:
\* invoice number, date, due date, bill_to, total, subtotal, tax, gstin,
\* discount, bank name, branch name, account number, swift code and items,
\* and an error message.
C18_InvalidRowKeepsFields ==
    \A k \in 1..Len(invalid_invoices) :
        LET row == invalid_invoices[k]
            h == hist[row.doc[1]][row.doc[2]]
            d == extract_invoice_details(h.text[1]).data
            kept(extracted, stored) == extracted # None => stored = extracted
        IN  h.insert = "raised" =>
               /\ kept(d.invoice_number, row.invoice_number)
               /\ kept(d.date, row.date)
               /\ kept(d.due_date, row.due_date)
               /\ kept(d.bill_to, row.bill_to)
               /\ kept(d.total, row.total)
               /\ kept(d.subtotal, row.subtotal)
               /\ kept(d.tax, row.tax)
               /\ kept(d.gstin, row.gstin)
               /\ kept(d.discount, row.discount)
               /\ kept(d.bank_name, row.bank_name)
               /\ kept(d.branch_name, row.branch_name)
               /\ kept(d.account_number, row.bank_account_number)
               /\ kept(d.bank_swift_code, row.bank_swift_code)
               /\ row.items = JsonItems(d)
               /\ row.error_message # ""

\* C19: every entry of results has the status "success" or "error" and the
\* name of its file; the status is "success" exactly when an invoices row
\* was committed for the file, and an entry with status "error" has an
\* error text.
C19_ResultContract ==
    \A p \in active : \A i \in 1..Len(results[p]) :
        /\ results[p][i].status \in {"success", "error"}
        /\ results[p][i].filename = files[p][i]
        /\ results[p][i].status = "success" <=> RowsOf(invoices, <<p, i>>) # {}
        /\ results[p][i].status = "error" => results[p][i].error # None

C19_Witness ==
    \E p \in active :
        /\ pc[p] = "done"
        /\ Len(results[p]) = 2
        /\ results[p][1].status = "success"
        /\ RowsOf(invoices, <<p, 1>>) # {}
        /\ results[p][2].status = "error"
        /\ hist[p][2].insert = "raised"
        /\ RowsOf(invoices, <<p, 2>>) = {}

\* The first pattern of the list that matches the text.
FirstMatch(m) == CHOOSE i \in 1..Len(m) : m[i] # None /\ \A j \in 1..(i - 1) : m[j] = None

\* The value a captured string stands for in field f.
Captured(f, s) ==
    IF f \in {"invoice_number", "date", "due_date"} THEN Some(s)
    ELSE IF f = "bill_to" THEN Some(strip(s))
    ELSE float(replace(s))

\* C20: the value extracted for a field with a pattern list is a capture of
\* the first pattern of the list that matches the text, no pattern after it
\* is searched, and no exception is raised; when no pattern matches, the
\* value is None.
C20_FirstPatternWins ==
    \A p \in active :
        pc[p] = "extracted" =>
            LET f == text[p][1].field
                m == text[p][1].matches
            IN  /\ pending[p] = None
                /\ IF \A i \in 1..Len(m) : m[i] = None
                   THEN invoice_data[p][f] = None
                   ELSE LET g == m[FirstMatch(m)][1]
                        IN  /\ hist[p][1].tried = FirstMatch(m)
                            /\ invoice_data[p][f] # None
                            /\ invoice_data[p][f] \in
                                  {Captured(f, g[k]) : k \in 1..Len(g)}

\* The string read with its rightmost comma or point as the decimal point:
\* the characters other than digits, comma, point and minus are dropped, the
\* separators of the other kind are dropped, those of the kind of the
\* rightmost one are points.
ReadAmount(s) ==
    LET k == SelectSeq(s, KeptChar)
        seps == {i \in 1..Len(k) : k[i] \in {",", "."}}
    IN  IF seps = {} THEN float_of(k)
        ELSE LET last == CHOOSE i \in seps : \A j \in seps : j <= i
                 other == IF k[last] = "," THEN "." ELSE ","
             IN  float_of(replace_char(remove_char(k, other), ",", "."))

\* C21: clean_amount reads its argument with the characters other than
\* digits, comma, point and minus removed and with the rightmost of comma
\* and point as the decimal point (a comma alone is the decimal point): the
\* result is that number rounded to hundredths if it is positive, and None
\* if the string is no number; "1234,56", "1.234,56" and "1,234.56" give
\* 1234.56 and "1,234" gives 1.23.
C21_CleanAmount ==
    \A p \in active :
        pc[p] = "cleaned" =>
            LET s == text[p][1]
                v == invoice_data[p]["value"]
                x == ReadAmount(s)
            IN  /\ x = None => v = None
                /\ (x # None /\ ~x[1].neg /\ x[1].mant > 0) => v = Some(round2(x[1]))
                /\ s \in { <<"1", "2", "3", "4", ",", "5", "6">>,
                           <<"1", ".", "2", "3", "4", ",", "5", "6">>,
                           <<"1", ",", "2", "3", "4", ".", "5", "6">>,
                           <<"1", " ", "2", "3", "4", ",", "5", "6", " ", "E", "U", "R">> }
                      => v = Some(123456)
                /\ s = <<"1", ",", "2", "3", "4">> => v = Some(123)

C21_Witness ==
    \E p \in active :
        /\ pc[p] = "cleaned"
        /\ text[p][1] = <<"1", ".", "2", "3", "4", ",", "5", "6">>
        /\ invoice_data[p]["value"] = Some(123456)

\* The lines of a text.
RECURSIVE Lines(_)
Lines(s) ==
    IF \A i \in 1..Len(s) : s[i] # "\n" THEN <<s>>
    ELSE LET i == CHOOSE a \in 1..Len(s) :
                     s[a] = "\n" /\ \A b \in 1..(a - 1) : s[b] # "\n"
         IN  <<SubSeq(s, 1, i - 1)>> \o Lines(SubSeq(s, i + 1, Len(s)))

\* C22: for a text made of a name line, a quantity line and a price line,
\* items has one entry, with that name, quantity and price.
C22_ItemsExtracted ==
    \A p \in active :
        pc[p] = "extracted" =>
            LET l == Lines(text[p][1])
            IN  ( /\ Len(l) = 3
                  /\ strip_chars(l[1]) # <<>>
                  /\ \A i \in 1..Len(l[1]) : l[1][i] \in WordChars \cup {" "}
                  /\ float_of(l[2]) # None
                  /\ float_of(l[3]) # None )
                => invoice_data[p]["items"] =
                      <<[ITEMS |-> strip_chars(l[1]),
                         QUANTITY |-> float_of(l[2])[1],
                         PRICE |-> float_of(l[3])[1]]>>

\* C23: when a call inside enhance_image or deskew_image fails, the function
\* returns the page it was given, with the same color mode and pixels.
C23_FailureReturnsGivenPage ==
    \A p \in active :
        /\ (pc[p] = "deskew_image" /\ invoice_data[p]["enhance_failed"] # None)
              => invoice_data[p]["image"] = text[p][1]
        /\ (pc[p] = "image_to_string" /\ invoice_data[p]["deskew_failed"] # None)
              => invoice_data[p]["image"] = invoice_data[p]["given"]

\* The documents other than file i of invocation p whose text carries the
\* invoice number n.
OthersWithNumber(p, i, n) ==
    {d \in {<<q, j>> : q \in active, j \in 1..MaxFiles + 1} :
        /\ d[2] <= Len(hist[d[1]])
        /\ d # <<p, i>>
        /\ NumberOf(d[1], d[2]) = n}

\* C24: the text with "PO Number:12345", "TOTAL: 1234.56 EUR" and "Bill to:
\* Acme Corp 12345 Email: a@a.com" yields invoice_number "12345", total
\* 1234.56, currency "EUR" and bill_to "Acme Corp", in the extracted data
\* and in the invoices row; when no step of the client resolution raised,
\* the client_id of the row is the id of a clients row with email a@a.com;
\* and the row is written when no database call failed and no other
\* document carried the number 12345.
C24_AcmeScenario ==
    /\ \A p \in active :
         (pc[p] \in {"email", "phone", "create", "placeholder", "route"}
            /\ text[p] = Some(T_ACME))
         => /\ invoice_data[p]["invoice_number"] = Some("12345")
            /\ invoice_data[p]["total"] = Some(123456)
            /\ invoice_data[p]["currency"] = Some("EUR")
            /\ invoice_data[p]["bill_to"] = Some("Acme Corp")
            /\ invoice_data[p]["client"]["email"] = Some("a@a.com")
    /\ \A k \in 1..Len(invoices) :
         LET row == invoices[k]
             h == hist[row.doc[1]][row.doc[2]]
         IN  h.text = Some(T_ACME)
             => /\ row.invoice_number = Some("12345")
                /\ row.total = Some(123456)
                /\ row.bill_to = Some("Acme Corp")
                /\ h.raised = "none"
                     => \E c \in 1..Len(clients) :
                           /\ row.client_id = Some(clients[c].id)
                           /\ clients[c].email = Some("a@a.com")
    /\ \A p \in active : \A i \in 1..Len(hist[p]) :
         ( /\ Returned(p, i)
           /\ hist[p][i].text = Some(T_ACME)
           /\ faults = 0
           /\ OthersWithNumber(p, i, Some("12345")) = {} )
         => /\ RowsOf(invoices, <<p, i>>) # {}
            /\ hist[p][i].status = Some("success")

\* The Acme document is attached to the client an earlier document created.
C24_Witness ==
    \E k \in 1..Len(invoices) : \E c \in 1..Len(clients) :
        /\ hist[invoices[k].doc[1]][invoices[k].doc[2]].text = Some(T_ACME)
        /\ hist[invoices[k].doc[1]][invoices[k].doc[2]].via = "email"
        /\ invoices[k].client_id = Some(clients[c].id)
        /\ clients[c].email = Some("a@a.com")
        /\ clients[c].doc # invoices[k].doc

\* C26: the invoices row of a document from which no subtotal, tax or
\* discount was extracted has its subtotal equal to its total, tax 0 and
\* discount 0.
C26_MissingAmountsDefaulted ==
    \A k \in 1..Len(invoices) :
        LET row == invoices[k]
            d == extract_invoice_details(hist[row.doc[1]][row.doc[2]].text[1]).data
        IN  /\ d.subtotal = None => row.subtotal = row.total
            /\ d.tax = None => row.tax = Some(0)
            /\ d.discount = None => row.discount = Some(0)

\* The total extracted from the text of file i.
TotalOf(p, i) ==
    IF hist[p][i].text = None THEN None
    ELSE LET r == extract_invoice_details(hist[p][i].text[1])
         IN  IF r.raises THEN None ELSE r.data.total

C28_ExtractionErrorRecorded ==
    \A p \in active : \A i \in 1..Len(hist[p]) :
        (Returned(p, i) /\ extract_invoice_details(hist[p][i].text[1]).raises)
        => /\ Cardinality(RowsOf(invalid_invoices, <<p, i>>)) = 1
           /\ \A k \in RowsOf(invalid_invoices, <<p, i>>) :
                LET row == invalid_invoices[k]
                IN  /\ \A f \in {"invoice_number", "date", "due_date", "bill_to",
                                  "total", "subtotal", "tax", "gstin", "discount",
                                  "bank_name", "branch_name", "bank_account_number",
                                  "bank_swift_code"} : row[f] = None
                    /\ row.error_message = extract_invoice_details(hist[p][i].text[1]).error
           /\ RowsOf(invoices, <<p, i>>) = {}
           /\ RowsOf(clients, <<p, i>>) = {}
           /\ hist[p][i].status = Some("error")
           /\ hist[p][i].fail = "none"
           /\ results[p][i].status = "error"

\* C29: no two invoices rows have the same id, whatever the interleaving of
\* the invocations; when two invocations have each tried the INSERT for a
\* document with the same invoice number, exactly one INSERT succeeded and
\* the other document has an invalid_invoices row whose message starts with
\* "Failed to save invoice".
C29_OneInsertWins ==
    /\ \A a \in 1..Len(invoices) : \A b \in 1..Len(invoices) :
         invoices[a].id = invoices[b].id => a = b
    /\ \A p \in active : \A q \in active \ {p} :
         \A i \in 1..Len(hist[p]) : \A j \in 1..Len(hist[q]) :
            ( /\ Returned(p, i) /\ Returned(q, j)
              /\ NumberOf(p, i) # None
              /\ NumberOf(p, i) = NumberOf(q, j)
              /\ hist[p][i].insert # "none" /\ hist[q][j].insert # "none" )
            => /\ hist[p][i].insert = "ok" <=> hist[q][j].insert = "raised"
               /\ hist[p][i].insert = "raised" =>
                    /\ RowsOf(invoices, <<p, i>>) = {}
                    /\ \E k \in RowsOf(invalid_invoices, <<p, i>>) :
                         invalid_invoices[k].error_message \in
                            { "Failed to save invoice: UNIQUE constraint failed: invoices.id",
                              "Failed to save invoice: " \o DbError }

\* The items of a call are all known products and the stock covers them.
InStock(c) ==
    /\ c.items # <<>>
    /\ \A i \in 1..Len(c.items) : c.items[i].product_id \in Products
    /\ \A k \in Products :
         LET idx == {i \in 1..Len(c.items) : c.items[i].product_id = k}
             RECURSIVE Sum(_)
             Sum(S) == IF S = {} THEN 0
                       ELSE LET i == CHOOSE i \in S : TRUE
                            IN  c.items[i].quantity + Sum(S \ {i})
         IN  Sum(idx) <= c.stock[k]

\* C25: when execute_sales_process has returned for an existing client,
\* items in stock and payment by check, the result has status "success",
\* its invoice has status "paid", its transaction has the amount of the
\* invoice total and exactly one check, with status "pending".
C25_SalesWorkflow ==
    \A p \in active :
        ( /\ pc[p] = "returned"
          /\ text[p][1].entry.call = "execute_sales_process"
          /\ text[p][1].client_id \in KnownClients
          /\ InStock(text[p][1])
          /\ text[p][1].payment_method = "check" )
        => LET r == invoice_data[p]["result"][1]
           IN  /\ r.status = "success"
               /\ r.invoice[1].status = "paid"
               /\ "amount" \in DOMAIN r.transaction[1]
               /\ "checks" \in DOMAIN r.transaction[1]
               /\ r.transaction[1].amount = r.invoice[1].total
               /\ Len(r.transaction[1].checks) = 1
               /\ r.transaction[1].checks[1].status = "pending"

====
